---- MODULE Spec2Model ----
(***************************************************************************)
(* Model of the dynamic product selection and resilience layer of the      *)
(* Takealot end-to-end suite: ErrorHandler.retryWithBackoff,               *)
(* ErrorHandler.withNetworkResilience, the two scans of SearchResultsPage  *)
(* (findFirstSamsungTVWithinPrice, findFirstHighRefreshRateMonitor) and    *)
(* the pure helpers they call (ProductUtils, PriceUtils,                   *)
(* extractCleanProductName).                                               *)
(*                                                                         *)
(* Eight specifications share the state:                                   *)
(*   Spec           retryWithBackoff and the two scans under               *)
(*                  withNetworkResilience;                                 *)
(*   WrapperSpec    validateData, withGracefulDegradation and              *)
(*                  withNetworkResilience around one operation;            *)
(*   ContainerSpec  getAllProductContainers selector by selector, then     *)
(*                  the scan over the containers it returned;              *)
(*   OperationSpec  safeElementOperation and the operations it guards      *)
(*                  (field extraction, the add-to-cart step), the          *)
(*                  add-to-cart / add-to-wishlist dispatchers, click and   *)
(*                  filterBySamsung, on a clock;                           *)
(*   OperationTimerSpec  OperationSpec with the timer of                   *)
(*                  safeElementOperation firing once it is due;            *)
(*   VerifySpec     verifyItemInCart, verifyItemInWishlist and             *)
(*                  verifyItemWithFlexibleMatching on one page view;       *)
(*   UtilsSpec      parsePrice, isPriceWithinLimit, extractRefreshRate     *)
(*                  and meetsRefreshRateRequirement on bounded texts;      *)
(*   SelectionSpec  the selection step of scenario 1: retryWithBackoff     *)
(*                  around findFirstSamsungTVWithinPrice.                  *)
(*                                                                         *)
(* Text is a sequence of one-character strings, so that the regular        *)
(* expressions of the source are computed character by character.          *)
(***************************************************************************)
EXTENDS Integers, Sequences, FiniteSets, TLC

(***************************************************************************)
(* Bounds of the model.                                                    *)
(***************************************************************************)
\* longest listing title, in words of the vocabulary
MaxWords == 3
\* most elements the winning container selector matches on the page
MaxCount == 3
\* largest maxRetries handed to retryWithBackoff by a generic caller
MaxAttempts == 4
\* most rules handed to validateData
MaxRules == 3
\* most elements any container selector matches, selector by selector
MaxMatches == 11

(***************************************************************************)
(* Characters and text helpers (JavaScript String semantics).              *)
(***************************************************************************)
Digits == <<"0", "1", "2", "3", "4", "5", "6", "7", "8", "9">>

UpperCase ==
  <<"A", "B", "C", "D", "E", "F", "G", "H", "I", "J", "K", "L", "M",
    "N", "O", "P", "Q", "R", "S", "T", "U", "V", "W", "X", "Y", "Z">>

LowerCase ==
  <<"a", "b", "c", "d", "e", "f", "g", "h", "i", "j", "k", "l", "m",
    "n", "o", "p", "q", "r", "s", "t", "u", "v", "w", "x", "y", "z">>

DigitChars == { Digits[d] : d \in 1..10 }

\* \s: the white space of the alphabet is " " and the line break
SpaceChars == {" ", "\n"}

DigitOrCommaChars == DigitChars \cup {","}

IsDigit(c) == c \in DigitChars

DigitValue(c) == (CHOOSE d \in 1..10 : Digits[d] = c) - 1

IsSpace(c) == c \in SpaceChars

ToLowerChar(c) ==
  IF \E k \in 1..26 : UpperCase[k] = c
  THEN LowerCase[CHOOSE k \in 1..26 : UpperCase[k] = c]
  ELSE c

\* String.prototype.toLowerCase
ToLowerCase(s) == [k \in 1..Len(s) |-> ToLowerChar(s[k])]

\* the literal lit occurs in s at (1-based) position p, case-sensitively
OccursAt(s, p, lit) ==
  /\ p >= 1
  /\ p + Len(lit) - 1 <= Len(s)
  /\ \A k \in 1..Len(lit) : s[p + k - 1] = lit[k]

\* the same under the /i flag; lit is given in lower case
OccursAtIgnoreCase(s, p, lit) ==
  /\ p >= 1
  /\ p + Len(lit) - 1 <= Len(s)
  /\ \A k \in 1..Len(lit) : ToLowerChar(s[p + k - 1]) = lit[k]

\* String.prototype.includes
Includes(s, lit) == \E p \in 1..(Len(s) + 1) : OccursAt(s, p, lit)

\* first position at or after p whose character is not in the class
\* (the end of a greedy class* started at p)
SkipWhile(s, p, class) ==
  CHOOSE q \in p..(Len(s) + 1) :
    /\ \A k \in p..(q - 1) : s[k] \in class
    /\ (q = Len(s) + 1 \/ s[q] \notin class)

\* String.prototype.trim
Trim(s) ==
  IF \A k \in 1..Len(s) : IsSpace(s[k])
  THEN << >>
  ELSE LET first == CHOOSE a \in 1..Len(s) :
                      ~IsSpace(s[a]) /\ \A k \in 1..(a - 1) : IsSpace(s[k])
           last  == CHOOSE b \in 1..Len(s) :
                      ~IsSpace(s[b]) /\ \A k \in (b + 1)..Len(s) : IsSpace(s[k])
       IN  SubSeq(s, first, last)

\* String.prototype.substring(0, idx) for a 0-based idx (negative -> 0)
Substring0(s, idx) == SubSeq(s, 1, IF idx < 0 THEN 0 ELSE idx)

\* value of a run of decimal digits (parseInt of the captured group)
RECURSIVE DigitsToNat(_)
DigitsToNat(ds) ==
  IF ds = << >> THEN 0
  ELSE 10 * DigitsToNat(SubSeq(ds, 1, Len(ds) - 1)) + DigitValue(ds[Len(ds)])

\* leftmost of the positions where a pattern matches, 0 when there is none
FirstMatch(positions) ==
  IF positions = {} THEN 0
  ELSE CHOOSE p \in positions : \A q \in positions : p <= q

(***************************************************************************)
(* ProductUtils                                                            *)
(***************************************************************************)
\* /(\d+)\s*[Hh][Zz]/ matched at position p: a maximal digit run, optional
\* white space, then "hz" in any case
HzPatternAt(s, p) ==
  /\ IsDigit(s[p])
  /\ LET afterDigits == SkipWhile(s, p, DigitChars)
         afterSpace  == SkipWhile(s, afterDigits, SpaceChars)
     IN  OccursAtIgnoreCase(s, afterSpace, <<"h", "z">>)

NoRate == -1

\* variant of extractRefreshRate: the highest of the rates in the text
extractHighestRefreshRate(productText) ==
  LET at    == { q \in 1..Len(productText) : HzPatternAt(productText, q) }
      rates == { DigitsToNat(SubSeq(productText, p,
                                    SkipWhile(productText, p, DigitChars) - 1)) :
                   p \in at }
  IN  IF at = {} THEN NoRate
      ELSE CHOOSE r \in rates : \A o \in rates : o <= r

extractRefreshRate(productText) ==
  IF productText = << >> THEN NoRate
  ELSE LET p == FirstMatch({ q \in 1..Len(productText) :
                              HzPatternAt(productText, q) })
       IN  IF p = 0 THEN NoRate
           ELSE DigitsToNat(SubSeq(productText, p,
                                   SkipWhile(productText, p, DigitChars) - 1))

\* variant of meetsRefreshRateRequirement: the minimum itself is not enough
exceedsRefreshRateRequirement(productText, minRefreshRate) ==
  LET refreshRate == extractRefreshRate(productText)
  IN  refreshRate # NoRate /\ refreshRate > minRefreshRate

meetsRefreshRateRequirement(productText, minRefreshRate) ==
  LET refreshRate == extractRefreshRate(productText)
  IN  refreshRate # NoRate /\ refreshRate >= minRefreshRate

isSamsungBrand(productText) ==
  Includes(ToLowerCase(productText), <<"s", "a", "m", "s", "u", "n", "g">>)

tvKeywords ==
  << <<"t", "v">>,
     <<"t", "e", "l", "e", "v", "i", "s", "i", "o", "n">>,
     <<"s", "m", "a", "r", "t", " ", "t", "v">>,
     <<"l", "e", "d", " ", "t", "v">>,
     <<"q", "l", "e", "d">>,
     <<"o", "l", "e", "d">> >>

isTV(productText) ==
  LET lowerText == ToLowerCase(productText)
  IN  \E k \in 1..Len(tvKeywords) : Includes(lowerText, tvKeywords[k])

monitorKeywords ==
  << <<"m", "o", "n", "i", "t", "o", "r">>,
     <<"d", "i", "s", "p", "l", "a", "y">>,
     <<"s", "c", "r", "e", "e", "n">>,
     <<"l", "c", "d">>,
     <<"g", "a", "m", "i", "n", "g", " ", "m", "o", "n", "i", "t", "o", "r">> >>

isMonitor(productText) ==
  LET lowerText == ToLowerCase(productText)
  IN  \E k \in 1..Len(monitorKeywords) : Includes(lowerText, monitorKeywords[k])

(***************************************************************************)
(* PriceUtils                                                              *)
(***************************************************************************)
\* replace(/R\s*/g, ''): every capital R goes together with the white
\* space that follows it
RECURSIVE RemoveCurrencySymbol(_)
RemoveCurrencySymbol(s) ==
  IF s = << >> THEN << >>
  ELSE IF s[1] = "R"
       THEN RemoveCurrencySymbol(SubSeq(s, SkipWhile(s, 2, SpaceChars), Len(s)))
       ELSE <<s[1]>> \o RemoveCurrencySymbol(Tail(s))

\* replace(/[,\s]/g, '')
RemoveCommasAndSpaces(s) == SelectSeq(s, LAMBDA c : ~(c = "," \/ IsSpace(c)))

\* replace(/[^\d.]/g, '')
RemoveNonNumeric(s) == SelectSeq(s, LAMBDA c : IsDigit(c) \/ c = ".")

\* a parsed price: defined = FALSE stands for null; the value is
\* whole + 0.frac
NoPrice == [defined |-> FALSE, whole |-> 0, frac |-> << >>]

\* parseFloat of a text made of digits and dots only: the longest leading
\* decimal literal, NaN when it holds no digit
parseFloat(t) ==
  LET intEnd  == SkipWhile(t, 1, DigitChars)
      hasDot  == intEnd <= Len(t) /\ t[intEnd] = "."
      fracEnd == IF hasDot THEN SkipWhile(t, intEnd + 1, DigitChars) ELSE intEnd
      whole   == SubSeq(t, 1, intEnd - 1)
      frac    == IF hasDot THEN SubSeq(t, intEnd + 1, fracEnd - 1) ELSE << >>
  IN  IF whole = << >> /\ frac = << >> THEN NoPrice
      ELSE [defined |-> TRUE, whole |-> DigitsToNat(whole), frac |-> frac]

\* variant of parsePrice: the commas are left in the cleaned text
parsePriceKeepsCommas(priceText) ==
  IF priceText = << >> THEN NoPrice
  ELSE LET kept == SelectSeq(RemoveCurrencySymbol(priceText),
                             LAMBDA c : IsDigit(c) \/ c = "." \/ c = ",")
       IN  parseFloat(SubSeq(kept, 1, SkipWhile(kept, 1, DigitChars \cup {"."}) - 1))

parsePrice(priceText) ==
  IF priceText = << >> THEN NoPrice
  ELSE LET cleanPrice ==
             Trim(RemoveNonNumeric(RemoveCommasAndSpaces(
                    RemoveCurrencySymbol(priceText))))
       IN  parseFloat(cleanPrice)

\* variant of PriceAtMost: a price equal to maxPrice is over the limit
PriceBelow(price, maxPrice) == price.whole < maxPrice

\* price <= maxPrice for a whole number maxPrice
PriceAtMost(price, maxPrice) ==
  \/ price.whole < maxPrice
  \/ /\ price.whole = maxPrice
     /\ \A k \in 1..Len(price.frac) : price.frac[k] = "0"

isPriceWithinLimit(priceText, maxPrice) ==
  LET price == parsePrice(priceText)
  IN  price.defined /\ PriceAtMost(price, maxPrice)

(***************************************************************************)
(* SearchResultsPage.extractCleanProductName                               *)
(***************************************************************************)
\* replace(/^\d+\+?\s*/, ''): a leading count such as "10+ "
StripLeadingCount(s) ==
  IF s = << >> \/ ~IsDigit(s[1]) THEN s
  ELSE LET afterDigits == SkipWhile(s, 1, DigitChars)
           afterPlus   == IF afterDigits <= Len(s) /\ s[afterDigits] = "+"
                          THEN afterDigits + 1 ELSE afterDigits
       IN  SubSeq(s, SkipWhile(s, afterPlus, SpaceChars), Len(s))

\* end of R\s*\d+[,\d]*\s* started at p, 0 when it does not match there
AmountEnd(s, p) ==
  IF ~OccursAtIgnoreCase(s, p, <<"r">>) THEN 0
  ELSE LET digitsAt == SkipWhile(s, p + 1, SpaceChars)
       IN  IF digitsAt > Len(s) \/ ~IsDigit(s[digitsAt]) THEN 0
           ELSE SkipWhile(s, SkipWhile(s, digitsAt, DigitOrCommaChars), SpaceChars)

\* /R\s*\d+[,\d]*\s*Price/i
AmountPricePatternAt(s, p) ==
  /\ AmountEnd(s, p) # 0
  /\ OccursAtIgnoreCase(s, AmountEnd(s, p), <<"p", "r", "i", "c", "e">>)

\* /R\s*\d+[,\d]*\s*$/i
AmountAtEndPatternAt(s, p) == AmountEnd(s, p) = Len(s) + 1

\* first position after lit\s+ started at p, 0 when it does not match there
WordThenSpace(s, p, lit) ==
  IF /\ OccursAtIgnoreCase(s, p, lit)
     /\ p + Len(lit) <= Len(s)
     /\ IsSpace(s[p + Len(lit)])
  THEN SkipWhile(s, p + Len(lit), SpaceChars)
  ELSE 0

\* /Price\s+is\s+\d+/i
PriceIsPatternAt(s, p) ==
  LET isAt == WordThenSpace(s, p, <<"p", "r", "i", "c", "e">>)
      numAt == IF isAt = 0 THEN 0 ELSE WordThenSpace(s, isAt, <<"i", "s">>)
  IN  numAt # 0 /\ numAt <= Len(s) /\ IsDigit(s[numAt])

\* /From\s+R\s*\d+/i
FromPatternAt(s, p) ==
  LET rAt == WordThenSpace(s, p, <<"f", "r", "o", "m">>)
  IN  /\ rAt # 0
      /\ OccursAtIgnoreCase(s, rAt, <<"r">>)
      /\ LET numAt == SkipWhile(s, rAt + 1, SpaceChars)
         IN  numAt <= Len(s) /\ IsDigit(s[numAt])

\* /List\s+price/i
ListPricePatternAt(s, p) ==
  LET priceAt == WordThenSpace(s, p, <<"l", "i", "s", "t">>)
  IN  priceAt # 0 /\ OccursAtIgnoreCase(s, priceAt, <<"p", "r", "i", "c", "e">>)

\* position of the leftmost match of the k-th price pattern, 0 when none
PricePatternMatch(s, k) ==
  CASE k = 1 -> FirstMatch({ q \in 1..Len(s) : AmountPricePatternAt(s, q) })
    [] k = 2 -> FirstMatch({ q \in 1..Len(s) : AmountAtEndPatternAt(s, q) })
    [] k = 3 -> FirstMatch({ q \in 1..Len(s) : PriceIsPatternAt(s, q) })
    [] k = 4 -> FirstMatch({ q \in 1..Len(s) : FromPatternAt(s, q) })
    [] k = 5 -> FirstMatch({ q \in 1..Len(s) : ListPricePatternAt(s, q) })

NumPricePatterns == 5

\* the loop over pricePatterns: the text before the first match of the
\* first pattern that matches, trimmed; s itself when none matches
CutAtPrice(s) ==
  IF \E k \in 1..NumPricePatterns : PricePatternMatch(s, k) # 0
  THEN LET k == CHOOSE j \in 1..NumPricePatterns :
                  /\ PricePatternMatch(s, j) # 0
                  /\ \A h \in 1..(j - 1) : PricePatternMatch(s, h) = 0
       IN  Trim(SubSeq(s, 1, PricePatternMatch(s, k) - 1))
  ELSE s

brands ==
  << <<"S", "a", "m", "s", "u", "n", "g">>,
     <<"M", "S", "I">>,
     <<"L", "G">>,
     <<"S", "o", "n", "y">>,
     <<"A", "p", "p", "l", "e">>,
     <<"T", "e", "l", "e", "f", "u", "n", "k", "e", "n">>,
     <<"T", "o", "s", "h", "i", "b", "a">> >>

\* number of matches of new RegExp(brand, 'gi') from position p on
RECURSIVE CountMatches(_, _, _)
CountMatches(s, p, brand) ==
  IF p + Len(brand) - 1 > Len(s) THEN 0
  ELSE IF OccursAtIgnoreCase(s, p, ToLowerCase(brand))
       THEN 1 + CountMatches(s, p + Len(brand), brand)
       ELSE CountMatches(s, p + 1, brand)

\* String.prototype.lastIndexOf: 0-based, case-sensitive, -1 when absent
lastIndexOf(s, lit) ==
  IF \E p \in 1..Len(s) : OccursAt(s, p, lit)
  THEN (CHOOSE p \in 1..Len(s) :
          OccursAt(s, p, lit) /\ \A q \in (p + 1)..Len(s) : ~OccursAt(s, q, lit))
       - 1
  ELSE -1

\* the loop over brands: the first brand named more than once loses its
\* last occurrence and everything after it
DropRepeatedBrand(s) ==
  IF \E k \in 1..Len(brands) : CountMatches(s, 1, brands[k]) > 1
  THEN LET k == CHOOSE j \in 1..Len(brands) :
                  /\ CountMatches(s, 1, brands[j]) > 1
                  /\ \A h \in 1..(j - 1) : CountMatches(s, 1, brands[h]) <= 1
       IN  Trim(Substring0(s, lastIndexOf(s, brands[k])))
  ELSE s

extractCleanProductName(fullProductText) ==
  Trim(DropRepeatedBrand(CutAtPrice(StripLeadingCount(fullProductText))))

(***************************************************************************)
(* ErrorHandler.validateData                                               *)
(***************************************************************************)
\* ruleResults: what each rule returned for the data, in rule order; the
\* value is the list of failure messages, and the call throws iff it is
\* not empty
validateData(ruleResults) ==
  LET failing == SelectSeq(ruleResults, LAMBDA r : ~r.isValid)
  IN  [k \in 1..Len(failing) |-> failing[k].message]

\* the two rules both scans hand to validateData
ProductDataRules(name, price) ==
  << [isValid |-> name # << >> /\ Len(name) > 0,
      message |-> "Product name is empty or invalid"],
     [isValid |-> price # << >> /\ Includes(price, <<"R">>),
      message |-> "Product price is missing or invalid format"] >>

(***************************************************************************)
(* What the page can show.  Locators are lazy: the text of a container is  *)
(* read when the scan reaches it, so it is drawn at that step.             *)
(***************************************************************************)
W_Samsung == <<"S", "a", "m", "s", "u", "n", "g">>
W_samsung == <<"s", "a", "m", "s", "u", "n", "g">>
W_TV      == <<"T", "V">>
W_QLED    == <<"Q", "L", "E", "D">>
W_Monitor == <<"M", "o", "n", "i", "t", "o", "r">>
W_LCD     == <<"L", "C", "D">>
W_144Hz   == <<"1", "4", "4", "H", "z">>
W_60Hz    == <<"6", "0", "H", "z">>

\* words of the titles on the results page of each search
Vocabulary(scan) ==
  IF scan = "tv"
  THEN {W_Samsung, W_samsung, W_TV, W_QLED, W_LCD}
  ELSE {W_Samsung, W_Monitor, W_LCD, W_144Hz, W_60Hz}

\* words joined by single spaces
RECURSIVE JoinWords(_)
JoinWords(ws) ==
  IF Len(ws) = 1 THEN ws[1]
  ELSE ws[1] \o <<" ">> \o JoinWords(Tail(ws))

\* listing titles of a results page: 1..MaxWords words of its vocabulary
ListingNamesOf(scan) ==
  { JoinWords(ws) :
      ws \in UNION { [1..k -> Vocabulary(scan)] : k \in 1..MaxWords } }

ListingNames == ListingNamesOf("tv") \cup ListingNamesOf("monitor")

P_10499 == <<"R", " ", "1", "0", ",", "4", "9", "9">>
P_15000 == <<"R", " ", "1", "5", ",", "0", "0", "0">>
P_15001 == <<"R", " ", "1", "5", ",", "0", "0", "1">>

ListingPrices == {P_10499, P_15000, P_15001}

\* outcome of getProductName: it raises, or resolves to a title
NameOutcomes ==
  [scan \in {"tv", "monitor"} |->
     {[ok |-> FALSE, text |-> << >>]}
       \cup {[ok |-> TRUE, text |-> n] : n \in ListingNamesOf(scan)}]

\* outcome of getProductPrice: it raises, or resolves to a price text
PriceOutcomes ==
  {[ok |-> FALSE, text |-> << >>]} \cup {[ok |-> TRUE, text |-> p] : p \in ListingPrices}

(***************************************************************************)
(* Values and errors                                                       *)
(***************************************************************************)
\* value of the generic operation handed to retryWithBackoff
OpValues == {"v1", "v2"}

\* an Error is its message, a sequence of text fragments
OpErrors == { [defined |-> TRUE, message |-> <<m>>] : m \in {"E1", "E2"} }

\* `let lastError: Error;` before any assignment
Undefined == [defined |-> FALSE, message |-> << >>]

NoContainersError ==
  [defined |-> TRUE,
   message |-> <<"No product containers found on the page - search may have failed or page not loaded">>]

NoListing == [pos |-> 0, name |-> << >>, price |-> << >>]

\* what a call resolved to: kind "pending" (nothing yet), "null", "listing"
\* ({name, price}, with its display position), "value", "text" (a string
\* read from the page) or "void"
Pending == [kind |-> "pending", value |-> "", text |-> << >>, listing |-> NoListing]
Null    == [kind |-> "null", value |-> "", text |-> << >>, listing |-> NoListing]
Value(v) == [kind |-> "value", value |-> v, text |-> << >>, listing |-> NoListing]
Listing(pos, name, price) ==
  [kind |-> "listing", value |-> "", text |-> << >>,
   listing |-> [pos |-> pos, name |-> name, price |-> price]]
Text(t) == [kind |-> "text", value |-> "", text |-> t, listing |-> NoListing]
Void    == [kind |-> "void", value |-> "", text |-> << >>, listing |-> NoListing]

\* a locator: an `a` element filtered by hasText, the first `a` of the
\* page, or the first of the product links
NoLocator == [kind |-> "none", text |-> << >>]

\* a target view: the texts of its entries, whether the entries are product
\* links for the generic selector, whether the page has another visible
\* link before them, and whether the price texts are displayed
NoView == [entries |-> << >>, productLinks |-> FALSE, otherLink |-> FALSE,
           priceShown |-> FALSE]

\* what a function of PriceUtils or ProductUtils returned: a price, a
\* number or a boolean
NoOutput == [kind |-> "none", price |-> NoPrice, number |-> 0, truth |-> FALSE]

\* no selection step around the call
NoSelection ==
  [pc |-> "none", maxRetries |-> 0, baseDelay |-> 0, attempt |-> 0,
   lastError |-> Undefined, waits |-> << >>, scans |-> 0,
   result |-> Pending, thrown |-> Undefined]

(***************************************************************************)
(* State                                                                   *)
(***************************************************************************)
VARIABLES
  caller,       \* the call under study; under Spec what retryWithBackoff
                \* wraps: "generic", "tv" or "monitor"
  param,        \* maxPrice of the TV scan, minRefreshRate of the monitor scan
  maxRetries,   \* retryWithBackoff: maxRetries
  baseDelay,    \* retryWithBackoff: baseDelay, in ms
  description,  \* retryWithBackoff: description
  attempt,      \* retryWithBackoff: loop variable
  lastError,    \* retryWithBackoff: lastError
  pc,           \* where the call is: "loop", "scan", "sleep", "rules",
                \* "race", "fallback", "running", "returned", "thrown"
  result,       \* what the call resolved to
  thrown,       \* what the call rejected with
  invocations,  \* number of times operation() was called
  waits,        \* the setTimeout delays of the call, in order
  console,      \* lines retryWithBackoff wrote to the console
  count,        \* productContainers.length of the running scan
  i,            \* display position (1-based) the running scan is at
  examined,     \* outcome of each container the running scan examined
  found         \* productContainers.length of every scan so far

VARIABLES
  retryOnNetworkError, \* withNetworkResilience: retryOnNetworkError
  defaultValue,        \* withGracefulDegradation: defaultValue
  dataType,            \* validateData: dataType
  numRules,            \* validateData: validationRules.length
  ruleResults,         \* validateData: what each rule called so far returned
  failures             \* validateData: failures

VARIABLES
  selectorIndex,  \* getAllProductContainers: selector (1-based) the loop is at
  queried,        \* count() of every selector queried so far, in order
  containers      \* what getAllProductContainers returned: the locators
                  \* elements.nth(n), as [selector, nth]

VARIABLES
  wrapper,      \* "safe" when the call is a safeElementOperation, else "none"
  timeout,      \* safeElementOperation: timeout, in ms
  hasFallback,  \* safeElementOperation: a fallback was given
  caught,       \* safeElementOperation: `error` of the catch block
  task,         \* the operations in flight: "primary" and "fallback"
  clock,        \* ms since the call started
  pageActions,  \* clicks made on the page, in order
  productName   \* argument of addProductToCart / addProductToWishlist, as
                \* the list productName.split(' ')

VARIABLES
  view,           \* the cart or wishlist view a verification looks at
  expectedPrice,  \* verifyItemIn...: expectedPrice, << >> when not given
  strategy,       \* verifyItemInCart, tryMultipleStrategies: loop variable
  item,           \* verifyItemIn...: cartItem, wishlistItem, the locator
  priceOutcome    \* how the price verification went, "none" before it

VARIABLES
  input,   \* text handed to a function of PriceUtils or ProductUtils
  output   \* what the function returned

VARIABLES
  selection  \* the selection step of the scenario: the retryWithBackoff
             \* around findFirstSamsungTVWithinPrice (its maxRetries,
             \* baseDelay, attempt, lastError, waits, where it is, what it
             \* settled with) and the scans of the calls it has finished

retryVars == <<maxRetries, baseDelay, description, attempt, lastError, pc,
               result, thrown, invocations, waits, console>>
scanVars  == <<caller, param, count, i, examined, found>>
wrapVars  == <<retryOnNetworkError, defaultValue, dataType, numRules,
               ruleResults, failures>>
locVars   == <<selectorIndex, queried, containers>>
opVars    == <<wrapper, timeout, hasFallback, caught, task, clock,
               pageActions, productName>>
viewVars  == <<view, expectedPrice, strategy, item, priceOutcome>>
utilVars  == <<input, output>>
restVars  == <<viewVars, utilVars, selection>>
vars      == <<retryVars, scanVars, wrapVars, locVars, opVars, restVars>>

(***************************************************************************)
(* ErrorHandler.retryWithBackoff                                           *)
(***************************************************************************)
\* variants of BackoffDelay: a linear backoff, and an exponent off by one
BackoffDelayLinear(base, att) == base * att

BackoffDelayDoubled(base, att) == base * 2 ^ att

\* baseDelay * Math.pow(2, attempt - 1)
BackoffDelay(base, att) == base * 2 ^ (att - 1)

\* variant of IsFinalAttempt: gives up one attempt early
IsFinalAttemptEarly(att, maxR) == att >= maxR - 1

\* variant of IsFinalAttempt: the catch block never breaks, so the loop
\* waits after every failure
IsFinalAttemptNever(att, maxR) == att > maxR

\* `if (attempt === maxRetries)` in the catch block
IsFinalAttempt(att, maxR) == att = maxR

\* variant of ThrownError: a new error that carries the description and
\* the attempt count
ThrownErrorAnnotated(err, desc, maxR) ==
  [defined |-> TRUE,
   message |-> <<desc, "failed after", ToString(maxR), "attempts:">> \o err.message]

\* `throw lastError`: the error of the last invocation itself
ThrownError(err, desc, maxR) == err

ErrorLine(desc, maxR, err) ==
  [level |-> "error",
   text  |-> <<desc, "failed after", ToString(maxR), "attempts:">> \o err.message]

WarnLine(desc, att, maxR, delay, err) ==
  [level |-> "warn",
   text  |-> <<desc, "failed on attempt", ToString(att), "/", ToString(maxR),
               "retrying in", ToString(delay), "ms:">> \o err.message]

SuccessLine(desc, att) ==
  [level |-> "log", text |-> <<desc, "succeeded on attempt", ToString(att)>>]

\* operation() resolved with res: the try block returns it
RetryReturn(res) ==
  /\ result' = res
  /\ pc' = "returned"
  /\ console' = IF attempt > 1
                THEN Append(console, SuccessLine(description, attempt))
                ELSE console
  /\ UNCHANGED <<attempt, lastError, thrown, waits>>

\* operation() rejected with err: the catch block
RetryCatch(err) ==
  /\ lastError' = err
  /\ IF IsFinalAttempt(attempt, maxRetries)
     THEN /\ console' = Append(console, ErrorLine(description, maxRetries, err))
          /\ thrown' = ThrownError(err, description, maxRetries)
          /\ pc' = "thrown"
          /\ UNCHANGED waits
     ELSE /\ console' = Append(console,
                          WarnLine(description, attempt, maxRetries,
                                   BackoffDelay(baseDelay, attempt), err))
          /\ waits' = Append(waits, BackoffDelay(baseDelay, attempt))
          /\ pc' = "sleep"
          /\ UNCHANGED thrown
  /\ UNCHANGED <<attempt, result>>

\* the generic operation resolves
OperationSucceeds ==
  /\ pc = "loop" /\ caller = "generic" /\ attempt <= maxRetries
  /\ invocations' = invocations + 1
  /\ \E v \in OpValues : RetryReturn(Value(v))
  /\ UNCHANGED <<maxRetries, baseDelay, description, scanVars>>
  /\ UNCHANGED <<wrapVars, locVars, opVars, restVars>>

\* the generic operation rejects
OperationFails ==
  /\ pc = "loop" /\ caller = "generic" /\ attempt <= maxRetries
  /\ invocations' = invocations + 1
  /\ \E e \in OpErrors : RetryCatch(e)
  /\ UNCHANGED <<maxRetries, baseDelay, description, scanVars>>
  /\ UNCHANGED <<wrapVars, locVars, opVars, restVars>>

\* the setTimeout of the backoff fires: next iteration of the loop
TimerFires ==
  /\ pc = "sleep"
  /\ attempt' = attempt + 1
  /\ pc' = "loop"
  /\ UNCHANGED <<maxRetries, baseDelay, description, lastError, result, thrown,
                 invocations, waits, console, scanVars>>
  /\ UNCHANGED <<wrapVars, locVars, opVars, restVars>>

\* variant of LoopExhausted: a loop that never ran throws an error of its own
LoopExhaustedWithError ==
  /\ pc = "loop" /\ attempt > maxRetries
  /\ thrown' = [defined |-> TRUE, message |-> <<description, "was not attempted">>]
  /\ pc' = "thrown"
  /\ UNCHANGED <<maxRetries, baseDelay, description, attempt, lastError, result,
                 invocations, waits, console, scanVars>>
  /\ UNCHANGED <<wrapVars, locVars, opVars, restVars>>

\* the loop condition fails before any break: `throw lastError`
LoopExhausted ==
  /\ pc = "loop" /\ attempt > maxRetries
  /\ thrown' = ThrownError(lastError, description, maxRetries)
  /\ pc' = "thrown"
  /\ UNCHANGED <<maxRetries, baseDelay, description, attempt, lastError, result,
                 invocations, waits, console, scanVars>>
  /\ UNCHANGED <<wrapVars, locVars, opVars, restVars>>

(***************************************************************************)
(* ErrorHandler.withNetworkResilience                                      *)
(***************************************************************************)
NetworkMaxRetries == 3
NetworkBaseDelay == 2000
NetworkDescription(desc) == desc \o " (network resilient)"

\* messages of the errors the wrapped operation rejects with: one for each
\* network pattern, in mixed case, and two that match none
Msg_NetErr      == <<"n", "e", "t", ":", ":", "E", "R", "R">>
Msg_Timeout     == <<"T", "i", "m", "e", "o", "u", "t">>
Msg_Connection  == <<"C", "O", "N", "N", "E", "C", "T", "I", "O", "N">>
Msg_Network     == <<"N", "e", "t", "w", "o", "r", "k">>
Msg_DNS         == <<"D", "N", "S">>
Msg_Unreachable == <<"u", "n", "r", "e", "a", "c", "h", "a", "b", "l", "e">>
Msg_Internet    == <<"i", "n", "t", "e", "r", "n", "e", "t">>
Msg_Boom        == <<"b", "o", "o", "m">>

WrappedErrors ==
  { [defined |-> TRUE, message |-> m] :
      m \in {Msg_NetErr, Msg_Timeout, Msg_Connection, Msg_Network, Msg_DNS,
             Msg_Unreachable, Msg_Internet, Msg_Boom} }

\* /net::/i, /timeout/i, /connection/i, /network/i, /dns/i, /unreachable/i
networkErrorPatterns ==
  << <<"n", "e", "t", ":", ":">>,
     <<"t", "i", "m", "e", "o", "u", "t">>,
     <<"c", "o", "n", "n", "e", "c", "t", "i", "o", "n">>,
     <<"n", "e", "t", "w", "o", "r", "k">>,
     <<"d", "n", "s">>,
     <<"u", "n", "r", "e", "a", "c", "h", "a", "b", "l", "e">> >>

\* variant of isNetworkError: the patterns without the i flag
isNetworkErrorCaseSensitive(error) ==
  \E k \in 1..Len(networkErrorPatterns) :
    Includes(error.message, networkErrorPatterns[k])

\* networkErrorPatterns.some(pattern => pattern.test(error.message))
isNetworkError(error) ==
  \E k \in 1..Len(networkErrorPatterns) :
    Includes(ToLowerCase(error.message), networkErrorPatterns[k])

\* variant of RetriedByResilience: only network errors are retried
RetriedIfNetworkError(flag, error) == flag /\ isNetworkError(error)

\* `if (retryOnNetworkError)`: the branch is taken before the operation
\* runs, whatever it will reject with
RetriedByResilience(flag, error) == flag

\* new Error(`Network error during ${description}: ${error.message}.
\* Consider enabling retry for network operations.`)
NetworkErrorAnnotated(desc, error) ==
  [defined |-> TRUE,
   message |-> <<"Network error during", desc, ":">> \o error.message
                 \o <<". Consider enabling retry for network operations.">>]

\* everything the wrappers leave alone
wrapFrame == <<caller, param, count, i, examined, found, retryOnNetworkError,
               defaultValue, dataType, numRules, locVars, wrapper, timeout,
               hasFallback, task, clock, pageActions, productName, restVars>>

\* the operation handed to withNetworkResilience resolves
NetworkOperationResolves ==
  /\ caller = "withNetworkResilience"
  /\ \/ pc = "await"
     \/ pc = "loop" /\ attempt <= maxRetries
  /\ invocations' = invocations + 1
  /\ \E v \in OpValues :
       IF pc = "loop"
       THEN RetryReturn(Value(v))
       ELSE /\ result' = Value(v)
            /\ pc' = "returned"
            /\ UNCHANGED <<attempt, lastError, thrown, waits, console>>
  /\ UNCHANGED <<maxRetries, baseDelay, description, caught, ruleResults,
                 failures, wrapFrame>>

\* the operation handed to withNetworkResilience rejects: retryWithBackoff
\* takes it when retrying was asked for; otherwise a network error is
\* wrapped in a new error and any other error is rethrown
NetworkOperationRejects ==
  /\ caller = "withNetworkResilience"
  /\ \/ pc = "await"
     \/ pc = "loop" /\ attempt <= maxRetries
  /\ invocations' = invocations + 1
  /\ \E e \in WrappedErrors :
       IF RetriedByResilience(retryOnNetworkError, e)
       THEN RetryCatch(e) /\ UNCHANGED caught
       ELSE /\ caught' = e
            /\ thrown' = IF isNetworkError(e)
                         THEN NetworkErrorAnnotated(description, e)
                         ELSE e
            /\ pc' = "thrown"
            /\ UNCHANGED <<attempt, lastError, result, waits, console>>
  /\ UNCHANGED <<maxRetries, baseDelay, description, ruleResults, failures,
                 wrapFrame>>

(***************************************************************************)
(* ErrorHandler.withGracefulDegradation                                    *)
(***************************************************************************)
\* variant of GracefulResult: nothing is returned in place of the default
GracefulResultNull(error, dflt) == Null

\* `return defaultValue` in the catch block
GracefulResult(error, dflt) == Value(dflt)

GracefulLine(desc, error) ==
  [level |-> "warn",
   text  |-> <<desc, "failed gracefully, using default value:">> \o error.message]

GracefulOperationResolves ==
  /\ caller = "withGracefulDegradation" /\ pc = "await"
  /\ invocations' = invocations + 1
  /\ \E v \in OpValues : result' = Value(v)
  /\ pc' = "returned"
  /\ UNCHANGED <<maxRetries, baseDelay, description, attempt, lastError, thrown,
                 waits, console, caught, ruleResults, failures, wrapFrame>>

GracefulOperationRejects ==
  /\ caller = "withGracefulDegradation" /\ pc = "await"
  /\ invocations' = invocations + 1
  /\ \E e \in WrappedErrors :
       /\ caught' = e
       /\ console' = Append(console, GracefulLine(description, e))
       /\ result' = GracefulResult(e, defaultValue)
  /\ pc' = "returned"
  /\ UNCHANGED <<maxRetries, baseDelay, description, attempt, lastError, thrown,
                 waits, ruleResults, failures, wrapFrame>>

(***************************************************************************)
(* ErrorHandler.validateData, rule by rule                                 *)
(***************************************************************************)
\* message of the k-th rule
RuleMessage(k) == "rule " \o ToString(k) \o " failed"

\* Array.prototype.join, the separator being kept apart as a fragment
RECURSIVE JoinWith(_, _)
JoinWith(parts, sep) ==
  IF Len(parts) <= 1 THEN parts
  ELSE <<parts[1], sep>> \o JoinWith(Tail(parts), sep)

\* new Error(`${dataType} validation failed: ${failures.join(', ')}`)
ValidationError(type, failed) ==
  [defined |-> TRUE,
   message |-> <<type, "validation failed:">> \o JoinWith(failed, ", ")]

\* variant of RuleLoopContinues: the loop ends at the first failing rule
RuleLoopStopsAtFailure(failed, done, n) == done < n /\ failed = << >>

\* `for (const rule of validationRules)`: done rules of n were called
RuleLoopContinues(failed, done, n) == done < n

\* one iteration: rule(data) is called, its message kept when it is not valid
RuleEvaluated ==
  /\ caller = "validateData" /\ pc = "rules"
  /\ RuleLoopContinues(failures, Len(ruleResults), numRules)
  /\ \E valid \in BOOLEAN :
       LET r == [isValid |-> valid, message |-> RuleMessage(Len(ruleResults) + 1)]
       IN  /\ ruleResults' = Append(ruleResults, r)
           /\ failures' = IF ~r.isValid THEN Append(failures, r.message)
                          ELSE failures
  /\ UNCHANGED <<retryVars, caught, wrapFrame>>

\* after the loop: `if (failures.length > 0) throw`
RulesDone ==
  /\ caller = "validateData" /\ pc = "rules"
  /\ ~RuleLoopContinues(failures, Len(ruleResults), numRules)
  /\ IF Len(failures) > 0
     THEN /\ thrown' = ValidationError(dataType, failures)
          /\ pc' = "thrown"
          /\ UNCHANGED result
     ELSE /\ result' = Void
          /\ pc' = "returned"
          /\ UNCHANGED thrown
  /\ UNCHANGED <<maxRetries, baseDelay, description, attempt, lastError,
                 invocations, waits, console, caught, ruleResults, failures,
                 wrapFrame>>

(***************************************************************************)
(* SearchResultsPage: the two scans                                        *)
(***************************************************************************)
\* Math.min(count, 10) in getAllProductContainers
ContainerCap == 10

Min(a, b) == IF a <= b THEN a ELSE b

\* variant of Capped: every match is kept
Uncapped(n) == n

\* `i < Math.min(count, 10)`: how many of count matches are kept
Capped(n) == Min(n, ContainerCap)

\* variant of NoContainers: a page with a single container counts as empty
NoContainersOffByOne(n) == n <= 1

\* `if (productContainers.length === 0)`
NoContainers(n) == n = 0

\* the classifiers and the cleaning, tabulated once over the titles the
\* page can show
TitleFacts ==
  [n \in ListingNames |->
     [isSamsung   |-> isSamsungBrand(n),
      isTV        |-> isTV(n),
      isMonitor   |-> isMonitor(n),
      refreshRate |-> extractRefreshRate(n),
      cleanName   |-> extractCleanProductName(n)]]

\* isSamsung && isTV && withinPrice
SamsungTVCriteria(name, price, maxPrice) ==
  /\ TitleFacts[name].isSamsung
  /\ TitleFacts[name].isTV
  /\ isPriceWithinLimit(price, maxPrice)

\* isMonitor && meetsRefreshRate
MonitorCriteria(name, minRefreshRate) ==
  /\ TitleFacts[name].isMonitor
  /\ TitleFacts[name].refreshRate # NoRate
  /\ TitleFacts[name].refreshRate >= minRefreshRate

Criteria(scan, name, price, p) ==
  IF scan = "tv" THEN SamsungTVCriteria(name, price, p)
  ELSE MonitorCriteria(name, p)

\* body of the try block for one container: "raised" when extraction or
\* validation throws, else whether the criteria hold
ContainerTag(scan, nameOut, priceOut, p) ==
  IF ~nameOut.ok \/ ~priceOut.ok THEN "raised"
  ELSE IF validateData(ProductDataRules(nameOut.text, priceOut.text)) # << >>
       THEN "raised"
       ELSE IF Criteria(scan, nameOut.text, priceOut.text, p)
            THEN "match" ELSE "nomatch"

\* variants of StopsScan: a scan that keeps the last match instead of
\* returning the first, and a scan that a failing container ends
StopsOnlyAtEnd(tag, pos, n) == pos = n

StopsOnRaise(tag, pos, n) == tag \in {"match", "raised"} \/ pos = n

\* the for loop ends at this container: `return {name, price}` on a match,
\* or the last container was passed
StopsScan(tag, pos, n) == tag = "match" \/ pos = n

\* getAllProductContainers, then the length check of the scan
GetAllProductContainers ==
  /\ pc = "loop" /\ caller \in {"tv", "monitor"} /\ attempt <= maxRetries
  /\ invocations' = invocations + 1
  /\ \E matches \in 0..MaxCount :
       LET n == Capped(matches)
       IN  /\ found' = Append(found, n)
           /\ count' = n
           /\ examined' = << >>
           /\ IF NoContainers(n)
              THEN /\ RetryCatch(NoContainersError)
                   /\ i' = 0
              ELSE /\ pc' = "scan"
                   /\ i' = 1
                   /\ UNCHANGED <<attempt, lastError, result, thrown, waits,
                                  console>>
  /\ UNCHANGED <<maxRetries, baseDelay, description, caller, param>>
  /\ UNCHANGED <<wrapVars, locVars, opVars, restVars>>

\* one iteration of the for loop of a scan
ExamineContainer(scan) ==
  /\ pc = "scan" /\ caller = scan
  /\ \E nameOut \in NameOutcomes[scan], priceOut \in PriceOutcomes :
       LET tag == ContainerTag(scan, nameOut, priceOut, param)
       IN  /\ examined' = Append(examined, tag)
           /\ IF StopsScan(tag, i, count)
              THEN /\ RetryReturn(IF tag = "match"
                                  THEN Listing(i,
                                         TitleFacts[nameOut.text].cleanName,
                                         priceOut.text)
                                  ELSE Null)
                   /\ UNCHANGED i
              ELSE /\ i' = i + 1
                   /\ UNCHANGED <<attempt, lastError, pc, result, thrown,
                                  waits, console>>
  /\ UNCHANGED <<maxRetries, baseDelay, description, invocations, caller,
                 param, count, found>>
  /\ UNCHANGED <<wrapVars, locVars, opVars, restVars>>

(***************************************************************************)
(* SearchResultsPage.getAllProductContainers selector by selector, and the *)
(* loop of a scan over the containers it returned.  The texts are left     *)
(* out: a container raises, fails the criteria or satisfies them.          *)
(***************************************************************************)
productSelectors ==
  << "article[data-ref=\"product-item\"]",
     "article",
     "[data-ref=\"product-item\"]",
     ".product-item",
     ".product-card",
     "[data-testid*=\"product\"]" >>

\* variant of SelectorWins: a selector with a single match is passed over
SelectorWinsIfSeveral(n) == n > 1

\* `if (count > 0)`
SelectorWins(n) == n > 0

\* elements.nth(0), ..., elements.nth(Math.min(count, 10) - 1)
ContainersOf(selector, n) ==
  [k \in 1..Capped(n) |-> [selector |-> selector, nth |-> k - 1]]

scanFrame == <<maxRetries, baseDelay, description, attempt, lastError,
               invocations, waits, console, caller, param, found, wrapVars,
               opVars, restVars>>

\* one iteration of the loop over productSelectors: the selector is
\* counted; with a match its first containers are returned, after the last
\* selector [] is returned, and the scan that called goes on with the
\* length check
SelectorQueried ==
  /\ caller = "scan" /\ pc = "query"
  /\ \E n \in 0..MaxMatches :
       /\ queried' = Append(queried, [selector |-> selectorIndex, count |-> n])
       /\ IF SelectorWins(n)
          THEN /\ containers' = ContainersOf(selectorIndex, n)
               /\ count' = Len(ContainersOf(selectorIndex, n))
               /\ pc' = "scan"
               /\ i' = 1
               /\ UNCHANGED <<selectorIndex, thrown>>
          ELSE IF selectorIndex < Len(productSelectors)
               THEN /\ selectorIndex' = selectorIndex + 1
                    /\ UNCHANGED <<containers, count, pc, i, thrown>>
               ELSE /\ containers' = << >>
                    /\ count' = 0
                    /\ thrown' = NoContainersError
                    /\ pc' = "thrown"
                    /\ UNCHANGED <<selectorIndex, i>>
  /\ UNCHANGED <<result, examined, scanFrame>>

\* one iteration of the for loop of a scan, over productContainers[i]
ContainerScanned ==
  /\ caller = "scan" /\ pc = "scan"
  /\ \E tag \in {"raised", "nomatch", "match"} :
       /\ examined' = Append(examined, tag)
       /\ IF StopsScan(tag, i, count)
          THEN /\ result' = IF tag = "match" THEN Listing(i, << >>, << >>) ELSE Null
               /\ pc' = "returned"
               /\ UNCHANGED i
          ELSE /\ i' = i + 1
               /\ UNCHANGED <<result, pc>>
  /\ UNCHANGED <<thrown, count, locVars, scanFrame>>

FindFirstSamsungTVWithinPrice == ExamineContainer("tv")

FindFirstHighRefreshRateMonitor == ExamineContainer("monitor")

(***************************************************************************)
(* Operations in flight.  A page call with a timeout either completes      *)
(* while it waits (at the current clock) or fails when its timeout runs    *)
(* out; the clock moves to the earliest timeout pending.                   *)
(***************************************************************************)
Tasks == {"primary", "fallback"}

\* an operation in flight: which one (op), "idle", "running", "resolved" or
\* "rejected" (state), the selector or strategy it is at (step) and the page
\* call it waits for (phase, since), what it settled with (value, error),
\* and the error of the normal click that BasePage.click keeps (clickError)
IdleTask ==
  [op |-> "none", state |-> "idle", step |-> 0, phase |-> "", since |-> 0,
   value |-> Pending, error |-> Undefined, clickError |-> Undefined]

\* the page call an operation starts with: the dispatchers wait for the
\* button of their first strategy, addSamsungProductToCart clicks at once
FirstPhase(op) ==
  CASE op \in {"addProductToCart", "addProductToWishlist"} -> "locate"
    [] op \in {"addSamsungProductToCart", "click"} -> "click"
    [] op = "filterBySamsung" -> "pause"
    [] op \in {"nameSelectors", "priceSelectors"} -> "text"
    [] op \in {"nameFromText", "priceFromText"} -> "allText"
    [] OTHER -> "await"

StartTask(op, now) ==
  [IdleTask EXCEPT !.op = op, !.state = "running", !.step = 1,
                   !.phase = FirstPhase(op), !.since = now]

Settled(tk, ok, val, err) ==
  [tk EXCEPT !.state = IF ok THEN "resolved" ELSE "rejected",
             !.phase = "", !.value = val, !.error = err]

IsRunning(t) == task[t].state = "running"

\* button.waitFor({state: 'visible', timeout: 3000})
VisibleTimeout == 3000
\* locator.click({timeout: 10000})
ClickTimeout == 10000
\* locator.click({force: true, timeout: 5000})
ForceClickTimeout == 5000

\* nameElement.textContent({timeout: 2000})
SelectorTextTimeout == 2000
\* productContainer.textContent({timeout: 5000})
ContainerTextTimeout == 5000

\* filterBySamsung: page.waitForTimeout(2000) before the selectors,
\* element.waitFor({state: 'visible', timeout: 5000}), and
\* page.waitForTimeout(3000) after the click
FilterPause == 2000
FilterVisibleTimeout == 5000
FilterAppliedPause == 3000

\* timeout of the page call of a phase, in ms; the other phases have none
HasTimeout(phase) ==
  phase \in {"locate", "click", "force", "text", "allText",
             "pause", "filter", "applied"}

StepTimeout(phase) ==
  CASE phase = "locate" -> VisibleTimeout
    [] phase = "click" -> ClickTimeout
    [] phase = "force" -> ForceClickTimeout
    [] phase = "text" -> SelectorTextTimeout
    [] phase = "allText" -> ContainerTextTimeout
    [] phase = "pause" -> FilterPause
    [] phase = "filter" -> FilterVisibleTimeout
    [] phase = "applied" -> FilterAppliedPause

Deadline(tk) == tk.since + StepTimeout(tk.phase)

\* variant of PendingDeadlines: the timer of timeoutPromise is not counted
PendingDeadlinesOfTasks ==
  { Deadline(task[t]) : t \in { u \in Tasks : IsRunning(u) /\ HasTimeout(task[u].phase) } }

\* the timeouts pending: those of the page calls in flight and, while
\* Promise.race is awaited, that of timeoutPromise
PendingDeadlines ==
  { Deadline(task[t]) : t \in { u \in Tasks : IsRunning(u) /\ HasTimeout(task[u].phase) } }
    \cup (IF wrapper = "safe" /\ pc = "race" THEN {timeout} ELSE {})

\* no pending timeout runs out before time d
IsNextDeadline(d) == \A e \in PendingDeadlines : d <= e

\* everything the operations in flight leave alone
opFrame == <<caller, param, description, maxRetries, baseDelay, attempt,
             lastError, invocations, waits, console, count, i, examined,
             found, wrapVars, locVars, wrapper, timeout, hasFallback,
             productName, restVars>>

(***************************************************************************)
(* ErrorHandler.safeElementOperation                                       *)
(***************************************************************************)
\* default of the timeout parameter
DefaultSafeTimeout == 10000

\* new Error(`Operation timeout after ${timeout}ms`)
TimeoutError(ms) ==
  [defined |-> TRUE, message |-> <<"Operation timeout after", ToString(ms), "ms">>]

\* variant of CombinedError: the primary failure is left out
CombinedErrorFallbackOnly(primaryError, fallbackError) ==
  [defined |-> TRUE,
   message |-> <<"Both primary and fallback operations failed.", "Fallback:">>
                 \o fallbackError.message]

\* new Error(`Both primary and fallback operations failed. Primary: ...,
\* Fallback: ...`)
CombinedError(primaryError, fallbackError) ==
  [defined |-> TRUE,
   message |-> <<"Both primary and fallback operations failed.", "Primary:">>
                 \o primaryError.message \o <<",", "Fallback:">>
                 \o fallbackError.message]

\* the fallback handed to safeElementOperation by each caller
FallbackOp(call) ==
  CASE call = "safeElementOperation" -> "operation"
    [] call = "addToCartStep" -> "addSamsungProductToCart"
    [] call = "getProductName" -> "nameFromText"
    [] call = "getProductPrice" -> "priceFromText"

\* the catch block, entered at time now with error, the operations being
\* tasks: the fallback is started when there is one, else error is rethrown
SafeCatch(error, tasks, now) ==
  /\ caught' = error
  /\ IF hasFallback
     THEN /\ pc' = "fallback"
          /\ task' = [tasks EXCEPT !["fallback"] = StartTask(FallbackOp(caller), now)]
          /\ UNCHANGED <<result, thrown>>
     ELSE /\ pc' = "thrown"
          /\ thrown' = error
          /\ task' = tasks
          /\ UNCHANGED result

\* operation t settles at time now: the caller awaiting it goes on.  A
\* primary that settles after timeoutPromise won the race is not awaited
\* any more: nobody reads what it settled with.
Settle(t, ok, val, err, now) ==
  LET tasks == [task EXCEPT ![t] = Settled(@, ok, val, err)]
  IN  CASE wrapper = "safe" /\ t = "primary" /\ pc = "race" ->
             IF ok
             THEN /\ result' = val
                  /\ pc' = "returned"
                  /\ task' = tasks
                  /\ UNCHANGED <<thrown, caught>>
             ELSE SafeCatch(err, tasks, now)
        [] wrapper = "safe" /\ t = "primary" /\ pc # "race" ->
             /\ task' = tasks
             /\ UNCHANGED <<pc, result, thrown, caught>>
        [] wrapper = "safe" /\ t = "fallback" ->
             /\ task' = tasks
             /\ UNCHANGED caught
             /\ IF ok
                THEN result' = val /\ pc' = "returned" /\ UNCHANGED thrown
                ELSE /\ thrown' = CombinedError(caught, err)
                     /\ pc' = "thrown"
                     /\ UNCHANGED result
        [] wrapper = "none" ->
             /\ task' = tasks
             /\ UNCHANGED caught
             /\ IF ok
                THEN result' = val /\ pc' = "returned" /\ UNCHANGED thrown
                ELSE thrown' = err /\ pc' = "thrown" /\ UNCHANGED result

\* the setTimeout of timeoutPromise fires while Promise.race is awaited:
\* the race rejects; the primary is not cancelled and stays in flight
TimeoutPromiseRejects ==
  /\ wrapper = "safe" /\ pc = "race"
  /\ IsNextDeadline(timeout)
  /\ clock' = timeout
  /\ SafeCatch(TimeoutError(timeout), task, timeout)
  /\ UNCHANGED <<pageActions, opFrame>>

\* an operation of which nothing is known but how it settles; it may take
\* any time, or never settle
OperationResolves(t) ==
  /\ IsRunning(t) /\ task[t].op = "operation"
  /\ \E v \in OpValues : Settle(t, TRUE, Value(v), Undefined, clock)
  /\ UNCHANGED <<clock, pageActions, opFrame>>

OperationRejects(t) ==
  /\ IsRunning(t) /\ task[t].op = "operation"
  /\ \E e \in OpErrors : Settle(t, FALSE, Pending, e, clock)
  /\ UNCHANGED <<clock, pageActions, opFrame>>

(***************************************************************************)
(* BasePage.click, and the dispatchers SearchResultsPage.addProductToCart  *)
(* and addProductToWishlist                                                *)
(***************************************************************************)
\* what locator.click, the forced click and the script click reject with
NormalClickError == [defined |-> TRUE, message |-> <<"locator.click: Timeout 10000ms exceeded">>]
ForceClickError  == [defined |-> TRUE, message |-> <<"locator.click: Timeout 5000ms exceeded">>]
ScriptClickError == [defined |-> TRUE, message |-> <<"locator.evaluate: element is not attached">>]

ClickErrorOf(phase) ==
  CASE phase = "click" -> NormalClickError
    [] phase = "force" -> ForceClickError
    [] phase = "script" -> ScriptClickError

\* variant of NextClickPhase: the forced click is left out
NextClickPhaseSkipsForce(phase) == "script"

\* the escalation of BasePage.click: normal click, forced click, script click
NextClickPhase(phase) ==
  CASE phase = "click" -> "force"
    [] phase = "force" -> "script"

IsClickPhase(phase) == phase \in {"click", "force", "script"}

\* strategies.length
NumStrategies == 4

\* position, after the strategies, of the hardcoded approach
HardcodedStep == NumStrategies + 1

\* `if (brand && model)` of strategy 1, for words = productName.split(' ')
HasBrandAndModel(words) ==
  /\ Len(words) > 1
  /\ words[1] # "" /\ words[2] # ""

\* the text a strategy filters the containers by, in words of
\* words = productName.split(' '): `${brand} ${model}`, then keyWords =
\* words.slice(0, 3).join(' '), then brand; the last strategy takes the
\* first control of the page and filters nothing
StrategyFragment(words, s) ==
  CASE s = 1 -> SubSeq(words, 1, 2)
    [] s = 2 -> SubSeq(words, 1, IF Len(words) < 3 THEN Len(words) ELSE 3)
    [] s = 3 -> SubSeq(words, 1, 1)
    [] OTHER -> << >>

\* the strategies that look for the control inside a container
IsContainerScoped(s) == s \in 1..(NumStrategies - 1)

\* strategy s gets as far as filtering the containers: strategy 1 throws
\* before that for a name without brand and model
UsesFragment(words, s) ==
  IsContainerScoped(s) /\ (s = 1 => HasBrandAndModel(words))

\* addProductToCart ends with the hardcoded addSamsungProductToCart;
\* addProductToWishlist throws right after its loop
HasHardcodedApproach(op) == op = "addProductToCart"

IsDispatcher(op) == op \in {"addProductToCart", "addProductToWishlist"}

\* the control an operation clicks
ControlOf(op) ==
  CASE op = "addProductToWishlist" -> "wishlist"
    [] op = "filterBySamsung" -> "filter"
    [] OTHER -> "cart"

\* new Error(`Could not find Add to ... button for product: ${productName}`)
CouldNotFindError(op) ==
  [defined |-> TRUE,
   message |-> IF op = "addProductToWishlist"
               THEN <<"Could not find Add to Wishlist button for product:">>
               ELSE <<"Could not find Add to Cart button for product:">>]

\* one click attempt of operation t, as it goes to the page
ClickAttempt(t, ok) ==
  [by |-> t, op |-> task[t].op, step |-> task[t].step, how |-> task[t].phase,
   control |-> ControlOf(task[t].op), ok |-> ok, during |-> pc]

\* the strategy (or the hardcoded approach) operation t is at has thrown at
\* time now: the loop goes on with the next strategy, then with the
\* hardcoded approach where there is one, and at last the dispatcher throws
StrategyFailed(t, now) ==
  LET tk == task[t]
  IN  IF tk.step < NumStrategies
      THEN /\ task' = [task EXCEPT ![t] =
                         [tk EXCEPT !.step = tk.step + 1, !.phase = "locate",
                                    !.since = now, !.clickError = Undefined]]
           /\ UNCHANGED <<pc, result, thrown, caught>>
      ELSE IF tk.step = NumStrategies /\ HasHardcodedApproach(tk.op)
           THEN /\ task' = [task EXCEPT ![t] =
                              [tk EXCEPT !.step = HardcodedStep, !.phase = "click",
                                         !.since = now, !.clickError = Undefined]]
                /\ UNCHANGED <<pc, result, thrown, caught>>
           ELSE Settle(t, FALSE, Pending, CouldNotFindError(tk.op), now)

\* the button of the strategy becomes visible in time: this.click(button)
ButtonLocated(t) ==
  /\ IsRunning(t) /\ task[t].phase = "locate"
  /\ ~(task[t].step = 1 /\ ~HasBrandAndModel(productName))
  /\ task' = [task EXCEPT ![t] = [@ EXCEPT !.phase = "click", !.since = clock]]
  /\ UNCHANGED <<pc, result, thrown, caught, clock, pageActions, opFrame>>

\* the strategy throws before any click: strategy 1 at once, for a name
\* without brand and model; otherwise waitFor when its timeout runs out
ButtonNotFound(t) ==
  /\ IsRunning(t) /\ task[t].phase = "locate"
  /\ IF task[t].step = 1 /\ ~HasBrandAndModel(productName)
     THEN /\ clock' = clock
          /\ StrategyFailed(t, clock)
     ELSE /\ IsNextDeadline(Deadline(task[t]))
          /\ clock' = Deadline(task[t])
          /\ StrategyFailed(t, Deadline(task[t]))
  /\ UNCHANGED <<pageActions, opFrame>>

\* samsungSelectors.length
NumFilterSelectors == 5

\* variant of FilterSelectorFailed: filterBySamsung throws after its last
\* selector
FilterSelectorFailedThrows(t, now) ==
  IF task[t].step < NumFilterSelectors
  THEN /\ task' = [task EXCEPT ![t] =
                     [@ EXCEPT !.step = @ + 1, !.phase = "filter",
                               !.since = now, !.clickError = Undefined]]
       /\ UNCHANGED <<pc, result, thrown, caught>>
  ELSE Settle(t, FALSE, Pending, NormalClickError, now)

\* filterBySamsung: the selector operation t is at has thrown at time now,
\* on waitFor or on click; the loop goes on with the next selector, and
\* after the last one the method logs and returns
FilterSelectorFailed(t, now) ==
  IF task[t].step < NumFilterSelectors
  THEN /\ task' = [task EXCEPT ![t] =
                     [@ EXCEPT !.step = @ + 1, !.phase = "filter",
                               !.since = now, !.clickError = Undefined]]
       /\ UNCHANGED <<pc, result, thrown, caught>>
  ELSE Settle(t, TRUE, Void, Undefined, now)

\* filterBySamsung: the wait for the filters is over, the first selector
\* is tried
FiltersAwaited(t) ==
  /\ IsRunning(t) /\ task[t].phase = "pause"
  /\ IsNextDeadline(Deadline(task[t]))
  /\ clock' = Deadline(task[t])
  /\ task' = [task EXCEPT ![t] =
                [@ EXCEPT !.phase = "filter", !.since = Deadline(task[t])]]
  /\ UNCHANGED <<pc, result, thrown, caught, pageActions, opFrame>>

\* the element of the selector becomes visible in time: this.click(element)
FilterLocated(t) ==
  /\ IsRunning(t) /\ task[t].phase = "filter"
  /\ task' = [task EXCEPT ![t] = [@ EXCEPT !.phase = "click", !.since = clock]]
  /\ UNCHANGED <<pc, result, thrown, caught, clock, pageActions, opFrame>>

\* waitFor rejects when its timeout runs out
FilterNotFound(t) ==
  /\ IsRunning(t) /\ task[t].phase = "filter"
  /\ IsNextDeadline(Deadline(task[t]))
  /\ clock' = Deadline(task[t])
  /\ FilterSelectorFailed(t, Deadline(task[t]))
  /\ UNCHANGED <<pageActions, opFrame>>

\* the wait for the filter to be applied is over: filterBySamsung returns
FilterApplied(t) ==
  /\ IsRunning(t) /\ task[t].phase = "applied"
  /\ IsNextDeadline(Deadline(task[t]))
  /\ clock' = Deadline(task[t])
  /\ Settle(t, TRUE, Void, Undefined, Deadline(task[t]))
  /\ UNCHANGED <<pageActions, opFrame>>

\* variant of ClickSucceeds: a dispatcher does not return after the click
\* and goes on with its next strategy
ClickSucceedsAndGoesOn(t) ==
  /\ IsRunning(t) /\ IsClickPhase(task[t].phase)
  /\ pageActions' = Append(pageActions, ClickAttempt(t, TRUE))
  /\ IF IsDispatcher(task[t].op) /\ task[t].step < NumStrategies
     THEN StrategyFailed(t, clock)
     ELSE Settle(t, TRUE, Void, Undefined, clock)
  /\ UNCHANGED <<clock, opFrame>>

\* BasePage.click: the click in flight (normal, forced or by script) goes
\* through; click returns, and so does the operation that called it, but
\* for filterBySamsung, which waits for the filter to be applied first
ClickSucceeds(t) ==
  /\ IsRunning(t) /\ IsClickPhase(task[t].phase)
  /\ pageActions' = Append(pageActions, ClickAttempt(t, TRUE))
  /\ IF task[t].op = "filterBySamsung"
     THEN /\ task' = [task EXCEPT ![t] =
                        [@ EXCEPT !.phase = "applied", !.since = clock]]
          /\ UNCHANGED <<pc, result, thrown, caught>>
     ELSE Settle(t, TRUE, Void, Undefined, clock)
  /\ UNCHANGED <<clock, opFrame>>

\* BasePage.click: the click in flight fails.  A normal or forced click
\* fails when its timeout runs out and the next kind of click is tried; when
\* the script click fails too, click rethrows the error of the normal click,
\* which a dispatcher or filterBySamsung catches and
\* addSamsungProductToCart lets through.
ClickFails(t) ==
  LET tk == task[t]
  IN  /\ IsRunning(t) /\ IsClickPhase(tk.phase)
      /\ pageActions' = Append(pageActions, ClickAttempt(t, FALSE))
      /\ IF tk.phase # "script"
         THEN /\ IsNextDeadline(Deadline(tk))
              /\ clock' = Deadline(tk)
              /\ task' = [task EXCEPT ![t] =
                            [tk EXCEPT !.phase = NextClickPhase(tk.phase),
                                       !.since = Deadline(tk),
                                       !.clickError =
                                          IF tk.phase = "click"
                                          THEN ClickErrorOf(tk.phase)
                                          ELSE tk.clickError]]
              /\ UNCHANGED <<pc, result, thrown, caught>>
         ELSE /\ clock' = clock
              /\ IF IsDispatcher(tk.op)
                 THEN StrategyFailed(t, clock)
                 ELSE IF tk.op = "filterBySamsung"
                      THEN FilterSelectorFailed(t, clock)
                      ELSE Settle(t, FALSE, Pending, tk.clickError, clock)
      /\ UNCHANGED opFrame

(***************************************************************************)
(* SearchResultsPage.getProductName and getProductPrice: the loop over the *)
(* field selectors (primary) and the read of the whole container text      *)
(* (fallback), both handed to safeElementOperation with 5000 ms            *)
(***************************************************************************)
\* nameSelectors.length, priceSelectors.length
NumFieldSelectors == 6

\* timeout handed to safeElementOperation
FieldSafeTimeout == 5000

T_Title == JoinWords(<<W_Samsung, <<"6", "5">>, W_TV>>)

\* what textContent of a field element can be: null or '', blank, and for a
\* name a title, for a price 'R' alone, digits alone and a price
SelectorTexts(op) ==
  IF op = "nameSelectors"
  THEN { << >>, <<" ">>, <<" ">> \o T_Title }
  ELSE { << >>, <<"R">>, <<"1", "0">>, <<" ">> \o P_10499 \o <<" ">> }

\* what textContent of a container can be: null, title and price on two
\* lines, a short title and a price, a title alone
ContainerTexts ==
  { << >>,
    T_Title \o <<"\n">> \o P_10499,
    W_TV \o <<"\n">> \o P_10499,
    T_Title }

\* /R\s*[\d,\s]+/ matches at p: an R, then at least one digit, comma or
\* white space
PriceShapeAt(s, p) ==
  /\ p < Len(s)
  /\ s[p] = "R"
  /\ s[p + 1] \in DigitOrCommaChars \cup SpaceChars

\* variant of IsValidFieldText: any text that is not null or '' is kept
IsValidFieldTextIfAny(op, text) == text # << >>

\* the `if` of the primary: a name is kept when it is not blank, a price
\* when it includes 'R' and, trimmed, has the shape of a price
IsValidFieldText(op, text) ==
  IF op = "nameSelectors"
  THEN text # << >> /\ Len(Trim(text)) > 0
  ELSE /\ text # << >> /\ Includes(text, <<"R">>)
       /\ \E p \in 1..Len(Trim(text)) : PriceShapeAt(Trim(text), p)

\* String.prototype.split for a one-character separator
RECURSIVE Split(_, _)
Split(s, sep) ==
  IF \E p \in 1..Len(s) : s[p] = sep
  THEN LET p == CHOOSE q \in 1..Len(s) :
                  s[q] = sep /\ \A k \in 1..(q - 1) : s[k] # sep
       IN  <<SubSeq(s, 1, p - 1)>> \o Split(SubSeq(s, p + 1, Len(s)), sep)
  ELSE <<s>>

\* allText.split('\n').map(line => line.trim()).filter(line => line.length > 10)
LongLines(allText) ==
  SelectSeq([k \in 1..Len(Split(allText, "\n")) |-> Trim(Split(allText, "\n")[k])],
            LAMBDA line : Len(line) > 10)

\* allText.match(/R\s*[\d,\s]+/g)[0].trim(), << >> when there is no match
\* (the two other patterns of the fallback match only where this one does)
FirstPriceIn(allText) ==
  LET at == FirstMatch({ p \in 1..Len(allText) : PriceShapeAt(allText, p) })
  IN  IF at = 0 THEN << >>
      ELSE Trim(SubSeq(allText, at,
                       SkipWhile(allText, at + 1, DigitOrCommaChars \cup SpaceChars) - 1))

NoSelectorMatchedError(op) ==
  [defined |-> TRUE,
   message |-> IF op = "nameSelectors"
               THEN <<"No product name selectors matched">>
               ELSE <<"No price selectors found valid price data">>]

NothingInTextError(op) ==
  [defined |-> TRUE,
   message |-> IF op = "nameFromText"
               THEN <<"No readable product name found in container text">>
               ELSE <<"No price information found in product container">>]

TextContentTimeoutError ==
  [defined |-> TRUE, message |-> <<"locator.textContent: Timeout 5000ms exceeded">>]

IsFieldLoop(op) == op \in {"nameSelectors", "priceSelectors"}

\* the selector operation t is at gave nothing at time now: the loop goes
\* on with the next selector, and throws after the last
SelectorFailed(t, now) ==
  LET tk == task[t]
  IN  IF tk.step < NumFieldSelectors
      THEN /\ task' = [task EXCEPT ![t] = [tk EXCEPT !.step = tk.step + 1,
                                                      !.since = now]]
           /\ UNCHANGED <<pc, result, thrown, caught>>
      ELSE Settle(t, FALSE, Pending, NoSelectorMatchedError(tk.op), now)

\* textContent of the field element resolves: a valid text is returned
\* trimmed, any other text passes the turn to the next selector
SelectorTextRead(t) ==
  /\ IsRunning(t) /\ IsFieldLoop(task[t].op) /\ task[t].phase = "text"
  /\ \E text \in SelectorTexts(task[t].op) :
       IF IsValidFieldText(task[t].op, text)
       THEN Settle(t, TRUE, Text(Trim(text)), Undefined, clock)
       ELSE SelectorFailed(t, clock)
  /\ UNCHANGED <<clock, pageActions, opFrame>>

\* no element for the selector within 2000 ms: textContent rejects, the
\* catch block of the loop passes the turn to the next selector
SelectorTextTimesOut(t) ==
  /\ IsRunning(t) /\ IsFieldLoop(task[t].op) /\ task[t].phase = "text"
  /\ IsNextDeadline(Deadline(task[t]))
  /\ clock' = Deadline(task[t])
  /\ SelectorFailed(t, Deadline(task[t]))
  /\ UNCHANGED <<pageActions, opFrame>>

\* the fallback: textContent of the container resolves; the name is its
\* first long line, the price its first price-shaped piece
ContainerTextRead(t) ==
  /\ IsRunning(t) /\ task[t].phase = "allText"
  /\ \E allText \in ContainerTexts :
       LET found1 == IF task[t].op = "nameFromText"
                     THEN (IF LongLines(allText) = << >> THEN << >>
                           ELSE LongLines(allText)[1])
                     ELSE FirstPriceIn(allText)
           none   == IF task[t].op = "nameFromText"
                     THEN LongLines(allText) = << >>
                     ELSE FirstMatch({ p \in 1..Len(allText) :
                                         PriceShapeAt(allText, p) }) = 0
       IN  IF none
           THEN Settle(t, FALSE, Pending, NothingInTextError(task[t].op), clock)
           ELSE Settle(t, TRUE, Text(found1), Undefined, clock)
  /\ UNCHANGED <<clock, pageActions, opFrame>>

\* the fallback: textContent of the container rejects after 5000 ms
ContainerTextTimesOut(t) ==
  /\ IsRunning(t) /\ task[t].phase = "allText"
  /\ IsNextDeadline(Deadline(task[t]))
  /\ clock' = Deadline(task[t])
  /\ Settle(t, FALSE, Pending, TextContentTimeoutError, Deadline(task[t]))
  /\ UNCHANGED <<pageActions, opFrame>>

InitOperationIdle ==
  /\ wrapper = "none" /\ timeout = 0 /\ hasFallback = FALSE
  /\ caught = Undefined
  /\ task = [t \in Tasks |-> IdleTask]
  /\ clock = 0 /\ pageActions = << >> /\ productName = << >>

(***************************************************************************)
(* CartPage.verifyItemInCart, WishlistPage.verifyItemInWishlist and        *)
(* CommonPageHelpers.verifyItemWithFlexibleMatching.  productName is the   *)
(* list productName.split(' '), each word a text.                          *)
(***************************************************************************)
\* most entries in the cart or wishlist view
MaxEntries == 2

W_65 == <<"6", "5">>

\* page.locator('a').filter({hasText: t})
HasText(t) == [kind |-> "hasText", text |-> t]
\* page.locator('a').first()
FirstLink == [kind |-> "firstLink", text |-> << >>]
\* page.locator('[data-ref="product-link"], .cart-item a, .product-item a').first()
FirstProductLink == [kind |-> "firstProductLink", text |-> << >>]

\* the words the key word filters list
StopWords ==
  { <<"w", "i", "t", "h">>, <<"a", "n", "d">>, <<"t", "h", "e">>,
    <<"f", "o", "r">>, <<"S", "m", "a", "r", "t">> }

\* verifyItemInCart: words longer than 3 that are not listed, as written
KeyWordsOfCart(words) ==
  SelectSeq(words, LAMBDA w : Len(w) > 3 /\ w \notin StopWords)

\* CommonPageHelpers.extractKeyWords: the same on word.toLowerCase()
extractKeyWords(words) ==
  SelectSeq(words, LAMBDA w : Len(w) > 3 /\ ToLowerCase(w) \notin StopWords)

\* keyWords.slice(0, n)
Slice0(ws, n) == SubSeq(ws, 1, Min(n, Len(ws)))

\* the strategies of verifyItemInCart, in order
CartStrategies(words) ==
  << HasText(JoinWords(words)),
     IF Len(KeyWordsOfCart(words)) >= 2
     THEN HasText(JoinWords(Slice0(KeyWordsOfCart(words), 3)))
     ELSE FirstLink,
     IF Len(words) >= 2
     THEN HasText(JoinWords(<<words[1], words[2]>>))
     ELSE FirstLink,
     FirstProductLink >>

\* CommonPageHelpers.createPartialText
createPartialText(words) ==
  IF Len(extractKeyWords(words)) >= 2
  THEN JoinWords(Slice0(extractKeyWords(words), 3))
  ELSE JoinWords(words)

\* createFlexibleProductLocator, and the two locators
\* verifyItemWithFlexibleMatching pushes after it
FlexibleLocators(words) ==
  LET brand == words[1]
      model == IF Len(words) > 1 THEN words[2] ELSE << >>
  IN  <<HasText(JoinWords(words)), HasText(createPartialText(words))>>
        \o (IF brand # << >> /\ model # << >>
            THEN <<HasText(JoinWords(<<brand, model>>))>> ELSE << >>)
        \o (IF brand # << >> THEN <<HasText(brand)>> ELSE << >>)
        \o <<FirstProductLink, FirstLink>>

LocatorsOf(call, words) ==
  CASE call = "verifyItemInCart" -> CartStrategies(words)
    [] call = "verifyItemInWishlist" -> <<HasText(JoinWords(words))>>
    [] call = "verifyItemWithFlexibleMatching" -> FlexibleLocators(words)

\* hasText with a string: a substring of the element's text, whatever the
\* case of the letters
ContainsText(text, fragment) ==
  \E p \in 1..(Len(text) + 1) : OccursAtIgnoreCase(text, p, ToLowerCase(fragment))

\* number of visible elements locator loc resolves to in view v
MatchCount(v, loc) ==
  CASE loc.kind = "hasText" ->
         Cardinality({ k \in 1..Len(v.entries) : ContainsText(v.entries[k], loc.text) })
    [] loc.kind = "firstLink" ->
         IF v.otherLink \/ v.entries # << >> THEN 1 ELSE 0
    [] loc.kind = "firstProductLink" ->
         IF v.productLinks /\ v.entries # << >> THEN 1 ELSE 0
    [] OTHER -> 0

\* waitFor({state: 'visible'}) and expect(...).toBeVisible() resolve when
\* the locator has one visible element: none is a timeout, several a
\* strict mode violation
ResolvesToOne(v, loc) == MatchCount(v, loc) = 1

CouldNotFindItemError(call) ==
  [defined |-> TRUE,
   message |-> IF call = "verifyItemInCart"
               THEN <<"Could not find cart item using any strategy for product:">>
               ELSE <<"Could not find element using any strategy for:">>]

ExpectFailedError ==
  [defined |-> TRUE, message |-> <<"expect(locator).toBeVisible() failed">>]

\* variant of AfterPriceCheck: a failed price check is raised
AfterPriceCheckRaises(outcome) ==
  IF outcome = "failed" THEN "thrown" ELSE "returned"

\* the try/catch around the price verification, and the `else` that logs:
\* the method goes on to its end whatever the outcome
AfterPriceCheck(outcome) == "returned"

viewFrame == <<caller, param, maxRetries, baseDelay, description, attempt,
               lastError, invocations, waits, console, count, i, examined,
               found, wrapVars, locVars, opVars, view, expectedPrice, utilVars,
               selection>>

\* one turn of the loop over the strategies: cartItem is assigned, then
\* waited for; tryMultipleStrategies returns the locator that resolved, and
\* throws after the last
StrategyTried ==
  /\ pc = "locate"
  /\ caller \in {"verifyItemInCart", "verifyItemWithFlexibleMatching"}
  /\ LET locators == LocatorsOf(caller, productName)
         locator  == locators[strategy]
     IN  IF ResolvesToOne(view, locator)
         THEN /\ item' = locator
              /\ pc' = IF caller = "verifyItemInCart" THEN "visible" ELSE "price"
              /\ UNCHANGED <<strategy, thrown>>
         ELSE IF strategy < Len(locators)
              THEN /\ strategy' = strategy + 1
                   /\ item' = IF caller = "verifyItemInCart" THEN locator ELSE item
                   /\ UNCHANGED <<pc, thrown>>
              ELSE IF caller = "verifyItemInCart"
                   THEN /\ item' = locator
                        /\ pc' = "visible"
                        /\ UNCHANGED <<strategy, thrown>>
                   ELSE /\ thrown' = CouldNotFindItemError(caller)
                        /\ pc' = "thrown"
                        /\ UNCHANGED <<strategy, item>>
  /\ UNCHANGED <<result, priceOutcome, viewFrame>>

\* verifyItemInCart: `if (!cartItem) throw`, then expect(cartItem)
\* .toBeVisible(); verifyItemInWishlist: wishlistItem is the locator of the
\* name, expected to be visible, to contain the name and to have count 1
ItemExpected ==
  /\ pc = "visible"
  /\ caller \in {"verifyItemInCart", "verifyItemInWishlist"}
  /\ LET locator == IF caller = "verifyItemInWishlist"
                    THEN LocatorsOf(caller, productName)[1] ELSE item
     IN  /\ item' = locator
         /\ IF locator = NoLocator
            THEN thrown' = CouldNotFindItemError(caller) /\ pc' = "thrown"
            ELSE IF /\ ResolvesToOne(view, locator)
                    /\ caller = "verifyItemInWishlist" =>
                         MatchCount(view, locator) = 1
                 THEN pc' = "price" /\ UNCHANGED thrown
                 ELSE thrown' = ExpectFailedError /\ pc' = "thrown"
  /\ UNCHANGED <<result, strategy, priceOutcome, viewFrame>>

\* the price verification: skipped without an expected price; otherwise the
\* price texts are expected to be visible, inside try/catch
PriceVerified ==
  /\ pc = "price"
  /\ LET outcome == IF expectedPrice = << >> THEN "skipped"
                    ELSE IF view.priceShown THEN "shown" ELSE "failed"
     IN  /\ priceOutcome' = outcome
         /\ pc' = AfterPriceCheck(outcome)
         /\ IF AfterPriceCheck(outcome) = "returned"
            THEN result' = Void /\ UNCHANGED thrown
            ELSE thrown' = ExpectFailedError /\ UNCHANGED result
  /\ UNCHANGED <<strategy, item, viewFrame>>

(***************************************************************************)
(* Specification                                                           *)
(***************************************************************************)
\* arguments of the calls in the scenario tests
AssessmentMaxPrice == 15000
AssessmentMinRefreshRate == 120

BaseDelays == {1000, 3000}

InitRetry(maxR, base, desc) ==
  /\ maxRetries = maxR
  /\ baseDelay = base
  /\ description = desc
  /\ attempt = 1
  /\ lastError = Undefined
  /\ pc = "loop"
  /\ result = Pending
  /\ thrown = Undefined
  /\ invocations = 0
  /\ waits = << >>
  /\ console = << >>

\* the state of the wrappers, of getAllProductContainers and of the guarded
\* operations while none of them is called
InitWrapIdle ==
  /\ retryOnNetworkError = FALSE /\ defaultValue = "" /\ dataType = ""
  /\ numRules = 0 /\ ruleResults = << >> /\ failures = << >>

InitContainersIdle ==
  selectorIndex = 0 /\ queried = << >> /\ containers = << >>

InitScanIdle ==
  count = 0 /\ i = 0 /\ examined = << >> /\ found = << >>

InitViewIdle ==
  /\ view = NoView /\ expectedPrice = << >> /\ strategy = 0
  /\ item = NoLocator /\ priceOutcome = "none"

InitUtilsIdle ==
  input = << >> /\ output = NoOutput

InitSelectionIdle == selection = NoSelection

Init ==
  /\ InitScanIdle /\ InitWrapIdle /\ InitContainersIdle /\ InitOperationIdle
  /\ InitViewIdle /\ InitUtilsIdle /\ InitSelectionIdle
  /\ \/ /\ caller = "generic" /\ param = 0
        /\ \E maxR \in (-1)..MaxAttempts, base \in BaseDelays :
             InitRetry(maxR, base, "operation")
     \/ /\ caller = "tv" /\ param = AssessmentMaxPrice
        /\ InitRetry(NetworkMaxRetries, NetworkBaseDelay,
                     NetworkDescription("Samsung TV search operation"))
     \/ /\ caller = "monitor" /\ param = AssessmentMinRefreshRate
        /\ InitRetry(NetworkMaxRetries, NetworkBaseDelay,
                     NetworkDescription("High refresh rate monitor search operation"))

Next ==
  \/ OperationSucceeds
  \/ OperationFails
  \/ TimerFires
  \/ LoopExhausted
  \/ GetAllProductContainers
  \/ FindFirstSamsungTVWithinPrice
  \/ FindFirstHighRefreshRateMonitor

Spec == Init /\ [][Next]_vars

(***************************************************************************)
(* SelectionSpec: the selection step of scenario 1, retryWithBackoff with  *)
(* 2 attempts and a base delay of 3000 ms around                           *)
(* findFirstSamsungTVWithinPrice(15000), whose scan runs under             *)
(* withNetworkResilience; a call that resolves to null is made to throw.   *)
(* As in ContainerSpec the texts are left out: a container raises, fails   *)
(* the criteria or satisfies them.                                         *)
(***************************************************************************)
SelectionMaxRetries == 2
SelectionBaseDelay == 3000

\* new Error('No Samsung TV found under R15,000 - ...')
NoSamsungTVError ==
  [defined |-> TRUE, message |-> <<"No Samsung TV found under R15,000">>]

\* getAllProductContainers invocations of the step so far: those of the
\* calls of findFirstSamsungTVWithinPrice that are over and those of the
\* call in flight
TotalScans == selection.scans + Len(found)

selectionFrame == <<maxRetries, baseDelay, description, caller, param,
                    wrapVars, locVars, opVars, viewVars, utilVars>>

\* one iteration of the for loop of findFirstSamsungTVWithinPrice, inside
\* the operation handed to withNetworkResilience
SamsungTVContainerScanned ==
  /\ selection.pc = "await"
  /\ pc = "scan" /\ caller = "tv"
  /\ \E tag \in {"raised", "nomatch", "match"} :
       /\ examined' = Append(examined, tag)
       /\ IF StopsScan(tag, i, count)
          THEN /\ RetryReturn(IF tag = "match" THEN Listing(i, << >>, << >>)
                              ELSE Null)
               /\ UNCHANGED i
          ELSE /\ i' = i + 1
               /\ UNCHANGED <<attempt, lastError, pc, result, thrown,
                              waits, console>>
  /\ UNCHANGED <<invocations, count, found, selection, selectionFrame>>

\* the operation of the step resolves: findFirstSamsungTVWithinPrice
\* returned a listing, which retryWithBackoff returns
SelectionOperationSucceeds ==
  /\ selection.pc = "await"
  /\ pc = "returned" /\ result # Null
  /\ selection' = [selection EXCEPT !.pc = "returned", !.result = result]
  /\ UNCHANGED <<attempt, lastError, pc, result, thrown, invocations, waits,
                 console, count, i, examined, found, selectionFrame>>

\* variant of SelectionOperationFails: one attempt more than maxRetries
SelectionOperationFailsRetriesOnceMore ==
  /\ selection.pc = "await"
  /\ pc = "thrown" \/ (pc = "returned" /\ result = Null)
  /\ LET err == IF pc = "thrown" THEN thrown ELSE NoSamsungTVError
     IN  selection' =
           IF IsFinalAttempt(selection.attempt, selection.maxRetries + 1)
           THEN [selection EXCEPT !.lastError = err, !.pc = "thrown",
                                  !.thrown = ThrownError(err, "", 0)]
           ELSE [selection EXCEPT
                   !.lastError = err, !.pc = "sleep",
                   !.waits = Append(@, BackoffDelay(selection.baseDelay,
                                                    selection.attempt))]
  /\ UNCHANGED <<attempt, lastError, pc, result, thrown, invocations, waits,
                 console, count, i, examined, found, selectionFrame>>

\* the operation of the step rejects: findFirstSamsungTVWithinPrice threw,
\* or it returned null and the operation threw for it; the catch block of
\* retryWithBackoff
SelectionOperationFails ==
  /\ selection.pc = "await"
  /\ pc = "thrown" \/ (pc = "returned" /\ result = Null)
  /\ LET err == IF pc = "thrown" THEN thrown ELSE NoSamsungTVError
     IN  selection' =
           IF IsFinalAttempt(selection.attempt, selection.maxRetries)
           THEN [selection EXCEPT !.lastError = err, !.pc = "thrown",
                                  !.thrown = ThrownError(err, "", 0)]
           ELSE [selection EXCEPT
                   !.lastError = err, !.pc = "sleep",
                   !.waits = Append(@, BackoffDelay(selection.baseDelay,
                                                    selection.attempt))]
  /\ UNCHANGED <<attempt, lastError, pc, result, thrown, invocations, waits,
                 console, count, i, examined, found, selectionFrame>>

\* the setTimeout of the step's backoff fires: the next attempt calls
\* findFirstSamsungTVWithinPrice anew
SelectionTimerFires ==
  /\ selection.pc = "sleep"
  /\ selection' = [selection EXCEPT !.pc = "await", !.attempt = @ + 1,
                                    !.scans = @ + Len(found)]
  /\ attempt' = 1 /\ lastError' = Undefined /\ pc' = "loop"
  /\ result' = Pending /\ thrown' = Undefined
  /\ invocations' = 0 /\ waits' = << >> /\ console' = << >>
  /\ count' = 0 /\ i' = 0 /\ examined' = << >> /\ found' = << >>
  /\ UNCHANGED selectionFrame

SelectionInit ==
  /\ InitScanIdle /\ InitWrapIdle /\ InitContainersIdle /\ InitOperationIdle
  /\ InitViewIdle /\ InitUtilsIdle
  /\ caller = "tv" /\ param = AssessmentMaxPrice
  /\ InitRetry(NetworkMaxRetries, NetworkBaseDelay,
               NetworkDescription("Samsung TV search operation"))
  /\ selection = [NoSelection EXCEPT !.pc = "await",
                                     !.maxRetries = SelectionMaxRetries,
                                     !.baseDelay = SelectionBaseDelay,
                                     !.attempt = 1]

SelectionNext ==
  \/ GetAllProductContainers
  \/ SamsungTVContainerScanned
  \/ TimerFires
  \/ SelectionOperationSucceeds
  \/ SelectionOperationFails
  \/ SelectionTimerFires

SelectionSpec == SelectionInit /\ [][SelectionNext]_vars

\* retryWithBackoff is not part of the call
InitRetryIdle ==
  /\ maxRetries = 0 /\ baseDelay = 0 /\ attempt = 0 /\ lastError = Undefined
  /\ invocations = 0 /\ waits = << >> /\ console = << >>

(***************************************************************************)
(* ContainerSpec: one scan, from the first selector query on.              *)
(***************************************************************************)
ContainerInit ==
  /\ InitWrapIdle /\ InitOperationIdle /\ InitRetryIdle
  /\ InitViewIdle /\ InitUtilsIdle /\ InitSelectionIdle
  /\ caller = "scan" /\ param = 0 /\ description = ""
  /\ pc = "query" /\ result = Pending /\ thrown = Undefined
  /\ selectorIndex = 1 /\ queried = << >> /\ containers = << >>
  /\ InitScanIdle

ContainerNext ==
  \/ SelectorQueried
  \/ ContainerScanned

ContainerSpec == ContainerInit /\ [][ContainerNext]_vars

(***************************************************************************)
(* WrapperSpec: one call of validateData, of withGracefulDegradation or of *)
(* withNetworkResilience.                                                  *)
(***************************************************************************)
DataTypes == {"data", "Product data"}

WrapperInit ==
  /\ InitScanIdle /\ InitContainersIdle /\ InitOperationIdle
  /\ InitViewIdle /\ InitUtilsIdle /\ InitSelectionIdle
  /\ param = 0 /\ result = Pending /\ thrown = Undefined
  /\ ruleResults = << >> /\ failures = << >>
  /\ \/ /\ caller = "validateData" /\ pc = "rules"
        /\ InitRetryIdle /\ description = ""
        /\ dataType \in DataTypes
        /\ numRules \in 0..MaxRules
        /\ retryOnNetworkError = FALSE /\ defaultValue = ""
     \/ /\ caller = "withGracefulDegradation" /\ pc = "await"
        /\ InitRetryIdle /\ description = "operation"
        /\ defaultValue = "default"
        /\ dataType = "" /\ numRules = 0 /\ retryOnNetworkError = FALSE
     \/ /\ caller = "withNetworkResilience"
        /\ dataType = "" /\ numRules = 0 /\ defaultValue = ""
        /\ \/ /\ retryOnNetworkError = TRUE
              /\ InitRetry(NetworkMaxRetries, NetworkBaseDelay,
                           NetworkDescription("network operation"))
           \/ /\ retryOnNetworkError = FALSE
              /\ InitRetryIdle /\ description = "network operation"
              /\ pc = "await"

WrapperNext ==
  \/ RuleEvaluated
  \/ RulesDone
  \/ GracefulOperationResolves
  \/ GracefulOperationRejects
  \/ NetworkOperationResolves
  \/ NetworkOperationRejects
  \/ TimerFires

WrapperSpec == WrapperInit /\ [][WrapperNext]_vars

(***************************************************************************)
(* OperationSpec: one call of safeElementOperation, of a field extraction, *)
(* of the add-to-cart step of scenario 1, or of a dispatcher.              *)
(***************************************************************************)
\* safeElementOperation(operation, fallback?, timeout, description)
InitSafeElementOperation(call, primaryOp, withFallback, ms, desc) ==
  /\ caller = call /\ description = desc
  /\ wrapper = "safe" /\ timeout = ms /\ hasFallback = withFallback
  /\ pc = "race"
  /\ task = [t \in Tasks |-> IF t = "primary" THEN StartTask(primaryOp, 0)
                             ELSE IdleTask]

\* timeout of the add-to-cart step of scenario 1
CartStepTimeout == 15000

\* a listing title, word by word
ProductTitle == <<"Samsung", "65", "Crystal", "UHD", "4K", "TV">>

\* names handed to the dispatchers: the empty name, and the first words
\* of the title
ProductNames ==
  { <<"">> } \cup { SubSeq(ProductTitle, 1, k) : k \in 1..Min(MaxWords, Len(ProductTitle)) }

OperationInit ==
  /\ InitScanIdle /\ InitWrapIdle /\ InitContainersIdle /\ InitRetryIdle
  /\ InitViewIdle /\ InitUtilsIdle /\ InitSelectionIdle
  /\ param = 0 /\ result = Pending /\ thrown = Undefined
  /\ caught = Undefined /\ clock = 0 /\ pageActions = << >>
  /\ \/ /\ \E withFallback \in BOOLEAN :
             InitSafeElementOperation("safeElementOperation", "operation",
                                      withFallback, DefaultSafeTimeout,
                                      "element operation")
        /\ productName = << >>
     \/ /\ InitSafeElementOperation("addToCartStep", "addProductToCart", TRUE,
                                    CartStepTimeout, "add product to cart")
        /\ productName \in ProductNames
     \/ /\ InitSafeElementOperation("getProductName", "nameSelectors", TRUE,
                                    FieldSafeTimeout, "product name extraction")
        /\ productName = << >>
     \/ /\ InitSafeElementOperation("getProductPrice", "priceSelectors", TRUE,
                                    FieldSafeTimeout, "product price extraction")
        /\ productName = << >>
     \/ /\ caller \in {"addProductToCart", "addProductToWishlist"}
        /\ description = ""
        /\ wrapper = "none" /\ timeout = 0 /\ hasFallback = FALSE
        /\ pc = "running"
        /\ task = [t \in Tasks |-> IF t = "primary" THEN StartTask(caller, 0)
                                   ELSE IdleTask]
        /\ productName \in ProductNames
     \/ /\ caller \in {"click", "filterBySamsung"}
        /\ description = ""
        /\ wrapper = "none" /\ timeout = 0 /\ hasFallback = FALSE
        /\ pc = "running"
        /\ task = [t \in Tasks |-> IF t = "primary" THEN StartTask(caller, 0)
                                   ELSE IdleTask]
        /\ productName = << >>

OperationNext ==
  \/ TimeoutPromiseRejects
  \/ \E t \in Tasks : OperationResolves(t)
  \/ \E t \in Tasks : OperationRejects(t)
  \/ \E t \in Tasks : ButtonLocated(t)
  \/ \E t \in Tasks : ButtonNotFound(t)
  \/ \E t \in Tasks : ClickSucceeds(t)
  \/ \E t \in Tasks : ClickFails(t)
  \/ \E t \in Tasks : FiltersAwaited(t)
  \/ \E t \in Tasks : FilterLocated(t)
  \/ \E t \in Tasks : FilterNotFound(t)
  \/ \E t \in Tasks : FilterApplied(t)
  \/ \E t \in Tasks : SelectorTextRead(t)
  \/ \E t \in Tasks : SelectorTextTimesOut(t)
  \/ \E t \in Tasks : ContainerTextRead(t)
  \/ \E t \in Tasks : ContainerTextTimesOut(t)

OperationSpec == OperationInit /\ [][OperationNext]_vars

\* the same with the timer of timeoutPromise sure to fire: a setTimeout
\* callback that is due runs, since awaiting never blocks the event loop
OperationTimerSpec == OperationSpec /\ WF_vars(TimeoutPromiseRejects)

(***************************************************************************)
(* UtilsSpec: one call of a function of PriceUtils or ProductUtils.        *)
(***************************************************************************)
\* most groups of a comma and three digits in a formatted price
MaxGroups == 1
\* longest free text handed to parsePrice
MaxLen == 4

LeadGroups ==
  { <<"0">>, <<"2">>, <<"1", "0">>, <<"1", "5">>, <<"0", "1", "5">>,
    <<"9", "9", "9">> }

ThousandGroups ==
  { <<"0", "0", "0">>, <<"0", "0", "1">>, <<"4", "9", "9">>, <<"7", "4", "9">> }

RECURSIVE CommaGroups(_)
CommaGroups(gs) ==
  IF gs = << >> THEN << >> ELSE <<",">> \o gs[1] \o CommaGroups(Tail(gs))

\* texts of the form R, an optional space, one to three digits, groups of
\* a comma and three digits; alone or after "From "
FormattedPrices ==
  { pre \o <<"R">> \o sp \o lead \o CommaGroups(gs) :
      pre \in { << >>, <<"F", "r", "o", "m", " ">> },
      sp \in { << >>, <<" ">> },
      lead \in LeadGroups,
      gs \in UNION { [1..n -> ThousandGroups] : n \in 0..MaxGroups } }

TextAlphabet == {"R", " ", ".", "0", "5", "x"}

FreeTexts == UNION { [1..n -> TextAlphabet] : n \in 0..MaxLen }

PriceTexts == FormattedPrices \cup FreeTexts

Ceilings == {0, 10498, 10499, 10500, AssessmentMaxPrice}

RateWords ==
  { <<"1", "2", "0", "H", "z">>, <<"1", "4", "4", "h", "z">>,
    <<"1", "1", "9">>, <<"H", "Z">>, W_Monitor }

RateTexts ==
  { << >> } \cup
  { JoinWords(ws) : ws \in UNION { [1..k -> RateWords] : k \in 1..MaxWords } }

MinRates == {AssessmentMinRefreshRate - 1, AssessmentMinRefreshRate,
             AssessmentMinRefreshRate + 1}

utilFrame == <<maxRetries, baseDelay, description, attempt, lastError, result,
               thrown, invocations, waits, console, caller, param, count, i,
               examined, found, wrapVars, locVars, opVars, viewVars, input,
               selection>>

ParsePriceCalled ==
  /\ caller = "parsePrice" /\ pc = "call"
  /\ output' = [NoOutput EXCEPT !.kind = "price", !.price = parsePrice(input)]
  /\ pc' = "returned"
  /\ UNCHANGED utilFrame

IsPriceWithinLimitCalled ==
  /\ caller = "isPriceWithinLimit" /\ pc = "call"
  /\ output' = [NoOutput EXCEPT !.kind = "boolean",
                                !.truth = isPriceWithinLimit(input, param)]
  /\ pc' = "returned"
  /\ UNCHANGED utilFrame

ExtractRefreshRateCalled ==
  /\ caller = "extractRefreshRate" /\ pc = "call"
  /\ output' = [NoOutput EXCEPT !.kind = "number",
                                !.number = extractRefreshRate(input)]
  /\ pc' = "returned"
  /\ UNCHANGED utilFrame

MeetsRefreshRateRequirementCalled ==
  /\ caller = "meetsRefreshRateRequirement" /\ pc = "call"
  /\ output' = [NoOutput EXCEPT !.kind = "boolean",
                                !.truth = meetsRefreshRateRequirement(input, param)]
  /\ pc' = "returned"
  /\ UNCHANGED utilFrame

UtilsInit ==
  /\ InitScanIdle /\ InitWrapIdle /\ InitContainersIdle /\ InitRetryIdle
  /\ InitOperationIdle /\ InitViewIdle /\ InitSelectionIdle
  /\ description = "" /\ result = Pending /\ thrown = Undefined
  /\ pc = "call" /\ output = NoOutput
  /\ \/ caller = "parsePrice" /\ input \in PriceTexts /\ param = 0
     \/ caller = "isPriceWithinLimit" /\ input \in PriceTexts /\ param \in Ceilings
     \/ caller = "extractRefreshRate" /\ input \in RateTexts /\ param = 0
     \/ caller = "meetsRefreshRateRequirement" /\ input \in RateTexts
        /\ param \in MinRates

UtilsNext ==
  \/ ParsePriceCalled
  \/ IsPriceWithinLimitCalled
  \/ ExtractRefreshRateCalled
  \/ MeetsRefreshRateRequirementCalled

UtilsSpec == UtilsInit /\ [][UtilsNext]_vars

(***************************************************************************)
(* VerifySpec: one verification of a cart or wishlist view.                *)
(***************************************************************************)
\* titles the names to verify are the first words of
VerifyTitles == { <<W_Samsung, W_QLED, W_TV>>, <<W_Samsung, W_65, W_TV>> }

VerifyNames ==
  { SubSeq(t, 1, k) : t \in VerifyTitles, k \in 1..Min(MaxWords, 3) }

\* texts of the entries a view can hold
EntryTexts ==
  { JoinWords(<<W_Samsung, W_QLED, W_TV>>),
    JoinWords(<<W_Samsung, W_65, W_TV>>),
    JoinWords(<<W_Samsung, W_QLED, W_Monitor>>),
    JoinWords(<<W_LCD, W_Monitor>>) }

Views ==
  { [entries |-> es, productLinks |-> pl, otherLink |-> ol, priceShown |-> ps] :
      es \in UNION { [1..n -> EntryTexts] : n \in 0..MaxEntries },
      pl \in BOOLEAN, ol \in BOOLEAN, ps \in BOOLEAN }

VerifyInit ==
  /\ InitScanIdle /\ InitWrapIdle /\ InitContainersIdle /\ InitRetryIdle
  /\ InitUtilsIdle /\ InitSelectionIdle
  /\ param = 0 /\ description = "" /\ result = Pending /\ thrown = Undefined
  /\ wrapper = "none" /\ timeout = 0 /\ hasFallback = FALSE
  /\ caught = Undefined /\ task = [t \in Tasks |-> IdleTask]
  /\ clock = 0 /\ pageActions = << >>
  /\ caller \in {"verifyItemInCart", "verifyItemInWishlist",
                 "verifyItemWithFlexibleMatching"}
  /\ productName \in VerifyNames
  /\ expectedPrice \in {<< >>, P_10499}
  /\ view \in Views
  /\ strategy = 1 /\ item = NoLocator /\ priceOutcome = "none"
  /\ pc = IF caller = "verifyItemInWishlist" THEN "visible" ELSE "locate"

VerifyNext ==
  \/ StrategyTried
  \/ ItemExpected
  \/ PriceVerified

VerifySpec == VerifyInit /\ [][VerifyNext]_vars

(***************************************************************************)
(* Properties                                                              *)
(***************************************************************************)
Range(f) == { f[k] : k \in DOMAIN f }

RECURSIVE SumSeq(_)
SumSeq(q) == IF q = << >> THEN 0 ELSE Head(q) + SumSeq(Tail(q))

ScanCaller == caller \in {"tv", "monitor"}

Finished == pc \in {"returned", "thrown"}

\* positions the running scan found to satisfy the criteria
MatchPositions == { k \in 1..Len(examined) : examined[k] = "match" }

\* C1: a scan returns the listing at the lowest examined display position
\* that satisfies the criteria: the returned position satisfies them, no
\* examined position before it does, and a scan that goes on has seen no
\* match yet.
C1_FirstMatchReturned ==
  ScanCaller =>
    /\ result.kind = "listing" =>
         /\ result.listing.pos \in MatchPositions
         /\ \A k \in MatchPositions : result.listing.pos <= k
    /\ pc = "scan" => MatchPositions = {}

C1_Witness ==
  /\ ScanCaller /\ pc = "returned"
  /\ examined = <<"nomatch", "match">>
  /\ result.kind = "listing" /\ result.listing.pos = 2

\* C2: a container whose extraction or validation raises is skipped: the
\* scan goes on with the next position, and a later container that
\* satisfies the criteria is returned, the call does not fail.
C2_FailingContainerSkipped ==
  ScanCaller =>
    \A k \in 1..Len(examined) :
      examined[k] = "raised" =>
        /\ k < count => (Len(examined) > k \/ (pc = "scan" /\ i = k + 1))
        /\ \A j \in (k + 1)..Len(examined) :
             examined[j] = "match" =>
               /\ pc = "returned"
               /\ result.kind = "listing" /\ result.listing.pos = j
               /\ thrown = Undefined

C2_Witness ==
  /\ ScanCaller /\ pc = "returned"
  /\ examined = <<"raised", "raised", "match">>
  /\ result.kind = "listing" /\ result.listing.pos = 3

\* C3: a scan that found at least one container and no match resolves to
\* null without raising, and a scan that found containers is never followed
\* by another one: every scan before the last found the page empty.
C3_NoMatchIsNullNotRetried ==
  ScanCaller =>
    /\ \A k \in 1..(Len(found) - 1) : found[k] = 0
    /\ (Finished /\ found # << >> /\ found[Len(found)] > 0 /\ MatchPositions = {})
         => (pc = "returned" /\ result = Null /\ thrown = Undefined)

C3_Witness ==
  /\ ScanCaller /\ pc = "returned" /\ result = Null
  /\ found = <<2>> /\ examined = <<"nomatch", "nomatch">>

\* C4: when every scan finds zero containers the call never resolves; it
\* rejects with the 'no product containers found' error, and only once the
\* page has been scanned 3 times.
C4_EmptyPageFailsAfterThreeScans ==
  (ScanCaller /\ \A k \in 1..Len(found) : found[k] = 0) =>
    /\ result = Pending /\ pc # "returned"
    /\ Len(found) <= 3
    /\ Len(found) = 3 => pc = "thrown"
    /\ pc = "thrown" =>
         /\ thrown = NoContainersError
         /\ Len(found) = 3 /\ invocations = 3

C4_Witness ==
  /\ ScanCaller /\ pc = "thrown" /\ found = <<0, 0, 0>>
  /\ thrown = NoContainersError

\* C5: every listing a scan returns has a non-empty name.
C5_ReturnedNameNonEmpty ==
  (ScanCaller /\ result.kind = "listing") => result.listing.name # << >>

\* name.match(/lit/i) for a literal given in lower case
MatchesIgnoreCase(name, lit) == Includes(ToLowerCase(name), lit)

\* C6: the name findFirstSamsungTVWithinPrice returns matches /samsung/i
\* and /tv|television/i.
C6_ReturnedNameIsSamsungTV ==
  (caller = "tv" /\ result.kind = "listing") =>
    /\ MatchesIgnoreCase(result.listing.name, <<"s", "a", "m", "s", "u", "n", "g">>)
    /\ \/ MatchesIgnoreCase(result.listing.name, <<"t", "v">>)
       \/ MatchesIgnoreCase(result.listing.name,
                            <<"t", "e", "l", "e", "v", "i", "s", "i", "o", "n">>)

\* C7: the name findFirstHighRefreshRateMonitor returns matches
\* /monitor|display|screen/i and /\d+\s*hz/i.
C7_ReturnedNameIsRatedMonitor ==
  (caller = "monitor" /\ result.kind = "listing") =>
    /\ \/ MatchesIgnoreCase(result.listing.name, <<"m", "o", "n", "i", "t", "o", "r">>)
       \/ MatchesIgnoreCase(result.listing.name, <<"d", "i", "s", "p", "l", "a", "y">>)
       \/ MatchesIgnoreCase(result.listing.name, <<"s", "c", "r", "e", "e", "n">>)
    /\ \E q \in 1..Len(result.listing.name) :
         HzPatternAt(result.listing.name, q)

\* C8: when the operation fails k-1 times and then succeeds (k <=
\* maxRetries), retryWithBackoff resolves to that value after exactly k
\* invocations and k-1 waits, the j-th wait being baseDelay * 2^(j-1).
C8_SuccessOnKthAttempt ==
  (caller = "generic" /\ maxRetries >= 1 /\ pc = "returned") =>
    /\ result.kind = "value" /\ result.value \in OpValues
    /\ thrown = Undefined
    /\ attempt \in 1..maxRetries
    /\ invocations = attempt
    /\ Len(waits) = attempt - 1
    /\ \A j \in 1..Len(waits) : waits[j] = baseDelay * 2 ^ (j - 1)

C8_Witness ==
  /\ caller = "generic" /\ pc = "returned"
  /\ maxRetries = 3 /\ attempt = 3 /\ invocations = 3
  /\ waits = <<baseDelay, 2 * baseDelay>>

\* the error carries the description and the attempt count
Annotated(err, desc, maxR) ==
  desc \in Range(err.message) /\ ToString(maxR) \in Range(err.message)

C35_NoWaitAfterLastAttempt ==
  maxRetries >= 1 =>
    /\ pc = "thrown" =>
         /\ invocations = maxRetries
         /\ Len(waits) = maxRetries - 1
         /\ attempt = maxRetries
    /\ pc = "sleep" => (attempt < maxRetries /\ Len(waits) = attempt)
    /\ Len(waits) <= maxRetries - 1

C35_Witness ==
  /\ caller = "generic" /\ pc = "thrown" /\ maxRetries = 2
  /\ invocations = 2 /\ Len(waits) = 1

\* C36: for maxRetries >= 1 retryWithBackoff invokes the operation at
\* least once before it ends and at most maxRetries times, and what it
\* throws is an error the operation produced; for maxRetries <= 0 it never
\* invokes the operation and throws undefined.
C36_InvocationBounds ==
  /\ maxRetries >= 1 =>
       /\ invocations <= maxRetries
       /\ pc \in {"returned", "thrown"} => invocations >= 1
       /\ pc = "thrown" =>
            /\ thrown.defined /\ thrown = lastError
            /\ thrown \in OpErrors \cup {NoContainersError}
  /\ maxRetries <= 0 =>
       /\ invocations = 0 /\ waits = << >>
       /\ pc # "returned"
       /\ pc = "thrown" => thrown = Undefined

C36_Witness ==
  /\ caller = "generic" /\ maxRetries < 0
  /\ pc = "thrown" /\ ~thrown.defined /\ invocations = 0

\* C37: in the selection step of scenario 1, retryWithBackoff with 2
\* attempts around a scan under withNetworkResilience with 3 attempts,
\* getAllProductContainers is invoked at most 6 times in all before the
\* step throws or returns a listing.
C37_AtMostSixScans ==
  selection.pc # "none" =>
    /\ TotalScans <= 6
    /\ selection.attempt <= 2 /\ Len(found) <= 3
    /\ selection.pc = "returned" => selection.result.kind = "listing"

C37_Witness ==
  /\ selection.pc = "thrown" /\ TotalScans = 6
  /\ selection.thrown = NoContainersError

\* C10: the wait after attempt k is baseDelay * 2^(k-1), and the waits of
\* one call add up to at most baseDelay * (2^maxRetries - 1).
C10_BackoffDelays ==
  maxRetries >= 1 =>
    /\ \A k \in 1..Len(waits) : waits[k] = baseDelay * 2 ^ (k - 1)
    /\ SumSeq(waits) <= baseDelay * (2 ^ maxRetries - 1)

C10_Witness ==
  /\ caller = "generic" /\ pc = "thrown"
  /\ maxRetries = 4 /\ Len(waits) = 3
  /\ SumSeq(waits) = 7 * baseDelay

(***************************************************************************)
(* Properties of ContainerSpec                                             *)
(***************************************************************************)
\* getAllProductContainers has returned
Queried == caller = "scan" /\ pc # "query"

\* C17: getAllProductContainers queries its selectors in priority order,
\* one after the other, and stops at the first that matches at least one
\* element: every selector queried before the last matched nothing, the
\* containers returned all belong to the last selector queried, and []
\* is returned iff all six selectors were queried and matched nothing.
C17_FirstMatchingSelectorWins ==
  caller = "scan" =>
    /\ Len(queried) <= Len(productSelectors)
    /\ \A k \in 1..Len(queried) : queried[k].selector = k
    /\ \A k \in 1..(Len(queried) - 1) : queried[k].count = 0
    /\ pc = "query" =>
         (\A k \in 1..Len(queried) : queried[k].count = 0) /\ containers = << >>
    /\ Queried =>
         /\ queried # << >>
         /\ containers # << >> =>
              /\ queried[Len(queried)].count >= 1
              /\ \A k \in 1..Len(containers) :
                   containers[k].selector = queried[Len(queried)].selector
         /\ containers = << >> <=>
              /\ Len(queried) = Len(productSelectors)
              /\ \A k \in 1..Len(queried) : queried[k].count = 0

C17_Witness ==
  /\ Queried /\ Len(queried) = 3
  /\ queried[3] = [selector |-> 3, count |-> 1]
  /\ containers = << [selector |-> 3, nth |-> 0] >>

\* C18: a scan gets the first min(count, 10) matches of the winning
\* selector, in display order, and examines no other container: at most 10
\* are examined, a returned listing is at one of the first 10 display
\* positions, and a scan that found more than 10 matches and no match among
\* the first 10 returns null.
C18_AtMostTenExamined ==
  Queried =>
    LET matched == queried[Len(queried)].count
    IN  /\ Len(containers) = Min(matched, 10)
        /\ \A k \in 1..Len(containers) : containers[k].nth = k - 1
        /\ Len(examined) <= Len(containers) /\ Len(examined) <= 10
        /\ i <= 10
        /\ result.kind = "listing" =>
             /\ result.listing.pos <= 10
             /\ result.listing.pos = Len(examined)
        /\ (pc = "returned" /\ MatchPositions = {}) =>
             (result = Null /\ Len(examined) = Min(matched, 10))
        /\ pc = "scan" => Len(examined) < Min(matched, 10)

C18_Witness ==
  /\ Queried /\ pc = "returned" /\ result = Null
  /\ queried[Len(queried)].count = 11
  /\ Len(examined) = 10 /\ MatchPositions = {}

(***************************************************************************)
(* Properties of WrapperSpec                                               *)
(***************************************************************************)
\* the rules called so far that were not valid, in rule order
FailingRules == { k \in 1..Len(ruleResults) : ~ruleResults[k].isValid }

RuleMessages == { RuleMessage(k) : k \in 1..(MaxRules + 1) }

\* C13: validateData calls every rule, also after one has failed; it throws
\* iff at least one rule was not valid, and the message of the error then
\* holds the message of every failing rule, in rule order; it returns iff
\* all rules were valid.
C13_ValidateDataAggregates ==
  caller = "validateData" =>
    /\ failures = validateData(ruleResults)
    /\ Finished => Len(ruleResults) = numRules
    /\ pc = "thrown" <=> (Finished /\ FailingRules # {})
    /\ pc = "returned" <=> (Finished /\ FailingRules = {})
    /\ pc = "thrown" =>
         /\ SelectSeq(thrown.message, LAMBDA m : m \in RuleMessages)
              = validateData(ruleResults)
         /\ \A k \in FailingRules : RuleMessage(k) \in Range(thrown.message)
    /\ pc = "returned" => thrown = Undefined

C13_Witness ==
  /\ caller = "validateData" /\ pc = "thrown"
  /\ numRules = 3 /\ FailingRules = {1, 3}
  /\ thrown.message = <<dataType, "validation failed:",
                        RuleMessage(1), ", ", RuleMessage(3)>>

\* C14: withGracefulDegradation never rejects; it calls the operation
\* exactly once and returns the operation's value when it resolved and
\* defaultValue when it rejected, whatever the error.
C14_GracefulNeverFails ==
  caller = "withGracefulDegradation" =>
    /\ pc # "thrown" /\ thrown = Undefined
    /\ invocations <= 1
    /\ pc = "returned" =>
         /\ invocations = 1
         /\ caught = Undefined => (result.kind = "value" /\ result.value \in OpValues)
         /\ caught # Undefined => result = Value(defaultValue)

C14_Witness ==
  /\ caller = "withGracefulDegradation" /\ pc = "returned"
  /\ caught.message = Msg_Boom
  /\ result = Value("default")

\* text ends with the characters of msg
EndsWith(text, msg) ==
  /\ Len(text) >= Len(msg)
  /\ SubSeq(text, Len(text) - Len(msg) + 1, Len(text)) = msg

\* the console lines that report a failed invocation
FailureLines == { k \in 1..Len(console) : console[k].level \in {"warn", "error"} }

\* C15: with retryOnNetworkError = true, withNetworkResilience is
\* retryWithBackoff with 3 attempts and a base delay of 2000 ms: at most 3
\* invocations, waits of 2000 and then 4000 ms, and every failed
\* invocation before the third is followed by a wait and a new attempt,
\* whatever its message; the call rejects only after the third failure,
\* with that failure's error.
C15_ResilienceIsRetryWithBackoff ==
  (caller = "withNetworkResilience" /\ retryOnNetworkError) =>
    /\ invocations <= 3
    /\ waits \in {<< >>, <<2000>>, <<2000, 4000>>}
    /\ caught = Undefined
    /\ Len(waits) = Cardinality({ k \in FailureLines : console[k].level = "warn" })
    /\ pc = "thrown" =>
         /\ invocations = 3 /\ waits = <<2000, 4000>>
         /\ Cardinality(FailureLines) = 3
         /\ thrown = lastError /\ thrown \in WrappedErrors
    /\ pc = "returned" =>
         /\ invocations = Cardinality(FailureLines) + 1
         /\ Len(waits) = invocations - 1
    /\ pc \in {"loop", "sleep"} =>
         /\ Cardinality(FailureLines) = invocations
         /\ Len(waits) = invocations

C15_Witness ==
  /\ caller = "withNetworkResilience" /\ retryOnNetworkError
  /\ pc = "thrown" /\ invocations = 3
  /\ EndsWith(console[1].text, Msg_Boom)
  /\ EndsWith(console[2].text, Msg_Internet)
  /\ lastError.message = Msg_Timeout

\* the messages of WrappedErrors that name a network failure
NetworkMessages ==
  {Msg_NetErr, Msg_Timeout, Msg_Connection, Msg_Network, Msg_DNS, Msg_Unreachable}

\* C16: with retryOnNetworkError = false, withNetworkResilience calls the
\* operation exactly once; when it rejects with a network error the call
\* rejects with a new error whose message holds the original message and
\* recommends enabling retry, and with any other error it rejects with that
\* error itself.
C16_NoRetryAnnotatesNetworkErrors ==
  (caller = "withNetworkResilience" /\ ~retryOnNetworkError) =>
    /\ invocations <= 1
    /\ waits = << >>
    /\ Finished => invocations = 1
    /\ pc = "returned" => (caught = Undefined /\ result.value \in OpValues)
    /\ pc = "thrown" =>
         /\ caught \in WrappedErrors
         /\ caught.message \in NetworkMessages =>
              /\ thrown # caught
              /\ thrown.message[1] = "Network error during"
              /\ \A m \in Range(caught.message) : m \in Range(thrown.message)
              /\ thrown.message[Len(thrown.message)]
                   = ". Consider enabling retry for network operations."
         /\ caught.message \notin NetworkMessages => thrown = caught

C16_Witness ==
  /\ caller = "withNetworkResilience" /\ ~retryOnNetworkError
  /\ pc = "thrown"
  /\ caught.message = Msg_Timeout
  /\ thrown = NetworkErrorAnnotated("network operation", caught)

(***************************************************************************)
(* Properties of OperationSpec                                             *)
(***************************************************************************)
\* C11: safeElementOperation ends in exactly one of four ways.  It returns
\* the primary's value when the primary resolved while the race was
\* awaited; when the primary rejected or the timeout fired and there is a
\* fallback, it returns the fallback's value, or rejects with one new error
\* that names the primary failure and the fallback failure; when there is
\* no fallback it rejects with the primary's error, or the timeout error,
\* itself.
C11_SafeOperationOutcomes ==
  wrapper = "safe" =>
    LET p == task["primary"]
        f == task["fallback"]
        primaryFailed ==
          \/ caught = TimeoutError(timeout) /\ clock >= timeout
          \/ p.state = "rejected" /\ caught = p.error
    IN  /\ pc = "race" => (p.state = "running" /\ caught = Undefined)
        /\ pc = "fallback" => (hasFallback /\ f.state = "running" /\ primaryFailed)
        /\ pc = "returned" =>
             \/ /\ caught = Undefined
                /\ p.state = "resolved" /\ result = p.value
                /\ f.state = "idle" /\ thrown = Undefined
             \/ /\ primaryFailed /\ hasFallback
                /\ f.state = "resolved" /\ result = f.value
                /\ thrown = Undefined
        /\ pc = "thrown" =>
             /\ primaryFailed /\ result = Pending
             /\ hasFallback =>
                  /\ f.state = "rejected"
                  /\ thrown.defined /\ thrown # caught /\ thrown # f.error
                  /\ \A m \in Range(caught.message) : m \in Range(thrown.message)
                  /\ \A m \in Range(f.error.message) : m \in Range(thrown.message)
             /\ ~hasFallback => (thrown = caught /\ f.state = "idle")

C11_Witness ==
  /\ caller = "safeElementOperation" /\ pc = "thrown" /\ hasFallback
  /\ caught = TimeoutError(timeout)
  /\ task["fallback"].state = "rejected"
  /\ task["primary"].state = "running"

\* the clicks of operation t that went through
ClicksBy(t) ==
  { k \in 1..Len(pageActions) : pageActions[k].by = t /\ pageActions[k].ok }

\* C12: in safeElementOperation the primary makes no click attempt once the
\* race is over (the timeout fired and the fallback was started), and at
\* most one of the primary addProductToCart and the fallback
\* addSamsungProductToCart clicks an add control.
C12_PrimaryStopsAtTimeout ==
  wrapper = "safe" =>
    /\ \A k \in 1..Len(pageActions) :
         pageActions[k].by = "primary" => pageActions[k].during = "race"
    /\ ClicksBy("primary") = {} \/ ClicksBy("fallback") = {}

\* C19: in getProductName and getProductPrice the read of the whole
\* container text is started only after the loop over the field selectors
\* has tried every selector and thrown, never while selectors remain
\* untried; and a call that returns without it returns the trimmed text of
\* the first selector that gave a valid one.
C19_FallbackOnlyAfterAllSelectors ==
  caller \in {"getProductName", "getProductPrice"} =>
    /\ task["fallback"].state # "idle" =>
         caught = NoSelectorMatchedError(task["primary"].op)
    /\ (pc = "returned" /\ task["fallback"].state = "idle") =>
         /\ task["primary"].state = "resolved"
         /\ result.kind = "text" /\ result = task["primary"].value

\* C20: a dispatcher, addProductToCart or addProductToWishlist, throws only
\* after the click on the known fixed target, its last resort, was attempted
\* and failed, and it returns normally once a click of its own went through.
C20_FailsOnlyAfterLastResort ==
  \A t \in Tasks :
    IsDispatcher(task[t].op) =>
      /\ task[t].state = "rejected" =>
           \E k \in 1..Len(pageActions) :
             /\ pageActions[k].by = t /\ ~pageActions[k].ok
             /\ pageActions[k].step = HardcodedStep
             /\ pageActions[k].how = "script"
      /\ ClicksBy(t) # {} => task[t].state = "resolved"

\* the click attempts of the s-th call of BasePage.click by operation t, in
\* the order they went to the page
AttemptsOf(t, s) ==
  SelectSeq(pageActions, LAMBDA a : a.by = t /\ a.step = s)

ClickOrder == <<"click", "force", "script">>

\* C21: every call of BasePage.click tries the normal click, then the forced
\* click, then the script click, each only after the one before it failed,
\* and tries nothing after a click that went through; a direct call returns
\* iff its last attempt went through and throws iff all three failed, and
\* what it throws is the error of the normal click.
C21_ClickEscalation ==
  /\ \A t \in Tasks, s \in 1..HardcodedStep :
       LET tried == AttemptsOf(t, s)
       IN  /\ Len(tried) <= Len(ClickOrder)
           /\ \A k \in 1..Len(tried) :
                /\ tried[k].how = ClickOrder[k]
                /\ tried[k].ok => k = Len(tried)
  /\ caller = "click" =>
       LET tried == AttemptsOf("primary", 1)
       IN  /\ pc = "returned" <=> (tried # << >> /\ tried[Len(tried)].ok)
           /\ pc = "thrown" <=> (Len(tried) = Len(ClickOrder)
                                  /\ \A k \in 1..Len(tried) : ~tried[k].ok)
           /\ pc = "thrown" => thrown = NormalClickError

C21_Witness ==
  /\ caller = "click" /\ pc = "thrown"
  /\ Len(AttemptsOf("primary", 1)) = 3

\* strategy s of operation t was given up: its button was not found, or
\* all three clicks on it failed
GaveUp(t, s) ==
  LET tried == AttemptsOf(t, s)
  IN  tried = << >> \/ (Len(tried) = Len(ClickOrder) /\ ~tried[Len(tried)].ok)

\* C31: in addProductToCart and addProductToWishlist the strategies that
\* look inside a container are tried with ever weaker fragments of the
\* name, each with no more words than the one tried before it, and the
\* first control of the whole page is tried only after all of them failed.
C31_FragmentsWeaken ==
  \A t \in Tasks :
    (IsDispatcher(task[t].op) /\ task[t].state # "idle") =>
      /\ \A s1, s2 \in 1..task[t].step :
           (s1 < s2 /\ UsesFragment(productName, s1) /\ UsesFragment(productName, s2)) =>
             Len(StrategyFragment(productName, s2)) <= Len(StrategyFragment(productName, s1))
      /\ task[t].step >= NumStrategies =>
           \A s \in 1..(NumStrategies - 1) : GaveUp(t, s)

\* variant of C31 for names of at most two words, for which
\* words.slice(0, 3) is no longer than brand and model
C31_WeakenForShortNames ==
  \A t \in Tasks :
    (IsDispatcher(task[t].op) /\ task[t].state # "idle" /\ Len(productName) <= 2) =>
      \A s1, s2 \in 1..task[t].step :
        (s1 < s2 /\ UsesFragment(productName, s1) /\ UsesFragment(productName, s2)) =>
          Len(StrategyFragment(productName, s2)) <= Len(StrategyFragment(productName, s1))

\* C34: a call of addProductToCart or addProductToWishlist that returns
\* normally has made exactly one click that went through, and after a click
\* that went through the call tries nothing more, neither a later strategy
\* nor the hardcoded approach: no call makes two such clicks.
C34_OneSuccessfulClick ==
  \A t \in Tasks :
    IsDispatcher(task[t].op) =>
      /\ task[t].state = "resolved" => Cardinality(ClicksBy(t)) = 1
      /\ Cardinality(ClicksBy(t)) <= 1
      /\ \A k \in ClicksBy(t) :
           /\ pageActions[k].step = task[t].step
           /\ \A j \in (k + 1)..Len(pageActions) : pageActions[j].by # t

C34_Witness ==
  /\ caller = "addProductToWishlist" /\ pc = "returned"
  /\ Cardinality(ClicksBy("primary")) = 1
  /\ task["primary"].step = NumStrategies - 1
  /\ Len(pageActions) > Len(ClickOrder)

\* C38: whenever getProductName resolves its result is a non-empty string,
\* and whenever getProductPrice resolves its result contains 'R': the rules
\* the scans hand to validateData find no failure in a name or a price
\* that was extracted, so validateData never throws in a scan and a
\* container is skipped only when the extraction itself threw.
C38_ExtractedFieldsPassValidation ==
  /\ (caller = "getProductName" /\ pc = "returned") =>
       /\ result.kind = "text" /\ Len(result.text) > 0
       /\ validateData(ProductDataRules(result.text, P_10499)) = << >>
  /\ (caller = "getProductPrice" /\ pc = "returned") =>
       /\ result.kind = "text" /\ Includes(result.text, <<"R">>)
       /\ validateData(ProductDataRules(T_Title, result.text)) = << >>

C38_Witness ==
  /\ caller = "getProductPrice" /\ pc = "returned"
  /\ task["primary"].state = "rejected"
  /\ task["fallback"].state = "resolved"
  /\ result = Text(P_10499)

\* C33: filterBySamsung never fails: its selectors are tried in order, each
\* only after the one before it was given up; at most one click goes
\* through and nothing is tried after it; and when every selector was given
\* up the call returns normally.
C33_FilterNeverFails ==
  caller = "filterBySamsung" =>
    LET tk == task["primary"]
    IN  /\ pc # "thrown" /\ tk.state # "rejected" /\ thrown = Undefined
        /\ \A s \in 1..(tk.step - 1) : GaveUp("primary", s)
        /\ \A k \in 1..Len(pageActions) :
             /\ pageActions[k].control = "filter"
             /\ k > 1 => pageActions[k - 1].step <= pageActions[k].step
             /\ pageActions[k].ok => k = Len(pageActions)
        /\ Cardinality(ClicksBy("primary")) <= 1
        /\ (tk.step = NumFilterSelectors /\ GaveUp("primary", tk.step)
              /\ tk.phase \notin {"filter", "click", "force", "script"})
             => pc = "returned"

C33_Witness ==
  /\ caller = "filterBySamsung" /\ pc = "returned"
  /\ ClicksBy("primary") = {}
  /\ Len(pageActions) = Len(ClickOrder)
  /\ clock = FilterPause + (NumFilterSelectors - 1) * FilterVisibleTimeout
               + ClickTimeout + ForceClickTimeout

\* a safeElementOperation whose primary is still in flight after the race
\* is on the failure path of the timeout
OnTimeoutPath ==
  /\ caught = TimeoutError(timeout) /\ clock >= timeout
  /\ IF hasFallback
     THEN task["fallback"].state # "idle"
     ELSE pc = "thrown" /\ thrown = TimeoutError(timeout)

\* C30: safeElementOperation awaits its primary for `timeout` ms at most:
\* the race is never still awaited after that time, a call that has left
\* the race with its primary still unsettled has caught the 'Operation
\* timeout' error and has started the fallback, or failed with that error
\* when there is none, and a call whose primary never settles does leave
\* the race.
C30_HungPrimaryTimesOut ==
  /\ [](wrapper = "safe" =>
          /\ pc = "race" => clock <= timeout
          /\ (pc # "race" /\ task["primary"].state = "running") => OnTimeoutPath)
  /\ (caller = "safeElementOperation" /\ pc = "race") ~> (pc # "race")

C30_Witness ==
  /\ caller = "safeElementOperation" /\ ~hasFallback
  /\ task["primary"].state = "running"
  /\ pc = "thrown" /\ thrown = TimeoutError(timeout) /\ clock = timeout

(***************************************************************************)
(* Properties of VerifySpec                                                *)
(***************************************************************************)
\* the fragments of a name, strongest first: the name, its key words, its
\* brand and model
NameFragments(words) ==
  SelectSeq(CartStrategies(words), LAMBDA loc : loc.kind = "hasText")

\* C22: verifyItemInCart and verifyItemInWishlist return normally only if
\* some entry of the view contains the name or a fragment derived from it;
\* with no such entry they fail.
C22_PassesOnlyIfEntryPresent ==
  (caller \in {"verifyItemInCart", "verifyItemInWishlist"} /\ pc = "returned") =>
    \E k \in 1..Len(NameFragments(productName)) :
      MatchCount(view, NameFragments(productName)[k]) >= 1

\* C23: verifyItemInCart and verifyItemInWishlist fail when the chosen
\* fragment, the first (strongest) fragment of the name that matches any
\* entry, matches two or more entries of the view.
C23_FailsOnSeveralMatches ==
  (caller \in {"verifyItemInCart", "verifyItemInWishlist"} /\ pc = "returned") =>
    LET fragments == IF caller = "verifyItemInWishlist"
                     THEN SubSeq(NameFragments(productName), 1, 1)
                     ELSE NameFragments(productName)
        matching  == { k \in 1..Len(fragments) : MatchCount(view, fragments[k]) >= 1 }
    IN  matching # {} =>
          MatchCount(view, fragments[FirstMatch(matching)]) = 1

\* the full name matches no entry of the view, and the first weaker
\* fragment of the name that matches any entry matches exactly one
OnlyWeakerFragmentMatches(v, words) ==
  LET fragments == NameFragments(words)
      matching  == { k \in 1..Len(fragments) : MatchCount(v, fragments[k]) >= 1 }
  IN  /\ matching # {}
      /\ FirstMatch(matching) > 1
      /\ MatchCount(v, fragments[FirstMatch(matching)]) = 1

\* C32: when the full name matches no entry of the view but a weaker
\* fragment of it (its key words, or its brand and second word) matches an
\* entry, verifyItemInCart and verifyItemInWishlist both return normally.
C32_WeakerFragmentSuffices ==
  ( /\ caller \in {"verifyItemInCart", "verifyItemInWishlist"}
    /\ pc \in {"returned", "thrown"}
    /\ OnlyWeakerFragmentMatches(view, productName) )
  => pc = "returned"

\* variant of C32 for verifyItemInCart alone
C32_CartWeakensFragment ==
  ( /\ caller = "verifyItemInCart"
    /\ pc \in {"returned", "thrown"}
    /\ OnlyWeakerFragmentMatches(view, productName) )
  => pc = "returned"

\* C24: once the name check has passed, the price verification never makes
\* verifyItemInCart, verifyItemInWishlist or verifyItemWithFlexibleMatching
\* fail: whether the price is skipped, displayed or not displayed, the call
\* returns normally, and no call fails after its name check.
C24_PriceCheckNeverFails ==
  /\ priceOutcome # "none" => (pc = "returned" /\ thrown = Undefined)
  /\ pc = "thrown" => priceOutcome = "none"

C24_Witness ==
  /\ caller \in {"verifyItemInCart", "verifyItemInWishlist",
                 "verifyItemWithFlexibleMatching"}
  /\ expectedPrice # << >> /\ ~view.priceShown
  /\ priceOutcome = "failed" /\ pc = "returned"

(***************************************************************************)
(* Properties of UtilsSpec                                                 *)
(***************************************************************************)
\* the digits of a text, in order
DigitsOf(text) == SelectSeq(text, LAMBDA c : IsDigit(c))

WholePrice(n) == [defined |-> TRUE, whole |-> n, frac |-> << >>]

\* C25: for every text of the form R, optional space, 1 to 3 digits and
\* groups of a comma and 3 digits, alone or after "From ", parsePrice
\* returns the integer formed by the digits of the text.
C25_ParsePriceOfFormattedText ==
  (caller = "parsePrice" /\ pc = "returned" /\ input \in FormattedPrices) =>
    output.price = WholePrice(DigitsToNat(DigitsOf(input)))

C25_Witness ==
  /\ caller = "parsePrice" /\ pc = "returned"
  /\ input = <<"F", "r", "o", "m", " ", "R", " ", "2", ",", "7", "4", "9">>
  /\ output.price = WholePrice(2749)

\* C26: parsePrice returns null for every text without a digit, the empty
\* text included, and returns 0 only for texts whose digits are all 0.
C26_NoDigitsNoValue ==
  (caller = "parsePrice" /\ pc = "returned") =>
    /\ DigitsOf(input) = << >> => output.price = NoPrice
    /\ (output.price.defined /\ PriceAtMost(output.price, 0)) =>
         /\ DigitsOf(input) # << >>
         /\ \A k \in 1..Len(DigitsOf(input)) : DigitsOf(input)[k] = "0"

\* C27: isPriceWithinLimit(text, ceiling) is true iff parsePrice(text) is
\* defined and at most ceiling: false for a text without a number, and for
\* a formatted price true iff the integer of its digits is at most ceiling
\* (true when equal, false one above).
C27_WithinLimitIffParsedAndAtMost ==
  (caller = "isPriceWithinLimit" /\ pc = "returned") =>
    /\ output.truth <=> (parsePrice(input).defined
                         /\ PriceAtMost(parsePrice(input), param))
    /\ DigitsOf(input) = << >> => ~output.truth
    /\ input \in FormattedPrices =>
         (output.truth <=> DigitsToNat(DigitsOf(input)) <= param)

C27_Witness ==
  /\ caller = "isPriceWithinLimit" /\ pc = "returned"
  /\ input = P_10499 /\ param = 10499 /\ output.truth

\* a word made of digits only; a word that starts with Hz in any case; a
\* word of digits followed by Hz in any case
IsNumberWord(w) == w # << >> /\ \A k \in 1..Len(w) : IsDigit(w[k])
IsHzWord(w) == OccursAtIgnoreCase(w, 1, <<"h", "z">>)
IsRateWord(w) ==
  /\ w # << >> /\ IsDigit(w[1])
  /\ OccursAtIgnoreCase(w, SkipWhile(w, 1, DigitChars), <<"h", "z">>)

\* the leftmost refresh rate of a text, word by word: the number of the
\* first word that is a rate, or a number followed by a word that starts
\* with Hz; NoRate when there is none
LeftmostRate(text) ==
  LET ws  == IF text = << >> THEN << >> ELSE Split(text, " ")
      at  == { k \in 1..Len(ws) :
                 \/ IsRateWord(ws[k])
                 \/ IsNumberWord(ws[k]) /\ k < Len(ws) /\ IsHzWord(ws[k + 1]) }
  IN  IF at = {} THEN NoRate
      ELSE DigitsToNat(SubSeq(ws[FirstMatch(at)], 1,
                              SkipWhile(ws[FirstMatch(at)], 1, DigitChars) - 1))

\* C28: extractRefreshRate returns the number of the leftmost occurrence of
\* digits followed, optionally after white space, by Hz in any case, not
\* the highest of several, and no value iff there is no occurrence.
C28_FirstRefreshRate ==
  (caller = "extractRefreshRate" /\ pc = "returned") =>
    output.number = LeftmostRate(input)

C28_Witness ==
  /\ caller = "extractRefreshRate" /\ pc = "returned"
  /\ input = <<"1", "2", "0", "H", "z", " ", "1", "4", "4", "h", "z">>
  /\ output.number = 120

\* C29: meetsRefreshRateRequirement(text, minRate) is true iff the leftmost
\* rate of the text is defined and at least minRate: true when equal, false
\* one below, false without a rate.
C29_MeetsIffRateAtLeast ==
  (caller = "meetsRefreshRateRequirement" /\ pc = "returned") =>
    /\ output.truth <=> (extractRefreshRate(input) # NoRate
                         /\ extractRefreshRate(input) >= param)
    /\ output.truth <=> (LeftmostRate(input) # NoRate
                         /\ LeftmostRate(input) >= param)

C29_Witness ==
  /\ caller = "meetsRefreshRateRequirement" /\ pc = "returned"
  /\ input = <<"1", "2", "0", "H", "z">>
  /\ param = AssessmentMinRefreshRate /\ output.truth


====
